---- MODULE Spec2Model ----
(***************************************************************************)
(* Model of the duetscreen / hypervs1000 core:                             *)
(*   - GPUScheduler.dispatch          (hypervs1000/scheduler.py)           *)
(*   - weighted_average_rank and                                           *)
(*     weighted_reciprocal_rank_fusion (hypervs1000/consensus.py)          *)
(*   - run_aggregate                  (duet_screen/pipeline/aggregate.py)  *)
(*   - deterministic_score            (duet_screen/utils.py)               *)
(*   - run_dti, run_docking, run_mmgbsa (the three stage runners)          *)
(*   - main of scripts/run_pipeline.py (the pipeline runner)               *)
(* Floating point values are modelled as exact rationals <<num, den>>.     *)
(***************************************************************************)
EXTENDS Integers, Sequences, FiniteSets, TLC

(***************************************************************************)
(* Bounds of the model.                                                    *)
(***************************************************************************)
MaxTasks == 4
MaxDevices == 2
MaxRetriesBound == 2

MaxLists == 2
MaxEntries == 6
MaxRows == 3

DeviceIds == {0, 1}

\* Task.attempts values a caller may submit a task with (default 0).
InitAttemptValues == {0, 1}

\* Candidate identifiers, weights in tenths and fusion constants tried.
Candidates == {"X", "Y", "Z"}
WeightTenths == {-5, 0, 3, 5, 7}
FusionConstants == {-1, 0, 10}

VARIABLES
    \* ---- GPUScheduler ----
    devices,        \* self._devices: the device pool, a non-empty tuple
    max_retries,    \* self._max_retries
    submitted,      \* the tasks handed to dispatch, in submission order
    init_attempts,  \* Task.attempts of every submitted task at submission
    attempts,       \* Task.attempts of every submitted task, now
    queue,          \* the local deque of dispatch
    results,        \* the local results list of dispatch
    device_pos,     \* number of next() calls made on device_iter
    calls,          \* the worker invocations made so far, in order
    returned,       \* <<>> until dispatch returns, then <<results>>
    pc,             \* "idle", "loop", "returned", "raised_retryable", "raised_other"
    \* ---- consensus.py: arguments and outcomes of the fusion functions ----
    rank_lists,     \* argument rank_lists
    weights,        \* argument weights
    constant,       \* keyword argument constant
    wrrf_result,    \* outcome of weighted_reciprocal_rank_fusion
    war_result,     \* outcome of weighted_average_rank
    \* ---- aggregate.py: run_aggregate ----
    stage_files,    \* <workdir>/{dti,docking,mmgbsa}/results.jsonl
    stage_weights,  \* config.pipeline.stage_weights as <<dti, docking, mmgbsa>>
    consensus_constant, \* config.pipeline.consensus_constant
    wrrf_calls,     \* the calls of weighted_reciprocal_rank_fusion made by run_aggregate
    agg_result,     \* outcome of run_aggregate and the snapshot it wrote
    \* ---- utils.py: deterministic_score ----
    hash_seed,      \* which digest function of the family stands for blake2b
    components,     \* argument *components
    score_result,   \* outcome of deterministic_score
    \* ---- the stage commands on one work directory ----
    input_rows,     \* the rows of config.inputs.sequences (CSV)
    pipeline_raw,   \* raw["pipeline"] of the configuration file
    cli_devices,    \* _parse_devices(args.devices); <<>> stands for None
    aggregate_file, \* <workdir>/aggregate/final_rankings.json
    last_run,       \* the last command run, how it ended and what dti dispatched
    chain,          \* how many commands of dti, dock, mmgbsa, aggregate ran in a row
    first_snapshot, \* what aggregate wrote the first time the four ran in a row
    reran,          \* the four ran in a row again after that
    \* ---- scripts/run_pipeline.py: main ----
    sequences_exists, \* config.inputs.sequences is a file
    report_file,    \* <reports>/report.json
    runner_index,   \* position of `command` in STAGES, from 1
    runner_pc,      \* "idle", "launch", "wait", "failed", "done"
    started,        \* the commands subprocess.run launched, in order
    finished        \* the commands that exited with status 0, in order

schedVars == <<devices, max_retries, submitted, init_attempts, attempts, queue,
               results, device_pos, calls, returned, pc>>

fusionVars == <<rank_lists, weights, constant, wrrf_result, war_result>>

aggVars == <<stage_files, stage_weights, consensus_constant, wrrf_calls, agg_result>>

scoreVars == <<hash_seed, components, score_result>>

pipeVars == <<input_rows, pipeline_raw, cli_devices, aggregate_file, last_run,
              chain, first_snapshot, reran>>

runnerVars == <<sequences_exists, report_file, runner_index, runner_pc, started, finished>>

vars == <<schedVars, fusionVars, aggVars, scoreVars, pipeVars, runnerVars>>

\* What the scheduler, the fusion functions and run_aggregate never touch.
notSchedVars == <<fusionVars, aggVars, scoreVars, pipeVars, runnerVars>>
notFusionVars == <<schedVars, aggVars, scoreVars, pipeVars, runnerVars>>
notAggVars == <<schedVars, fusionVars, scoreVars, pipeVars, runnerVars>>
\* What deterministic_score never touches, and what the stage commands never
\* touch (they read hash_seed and write the files of the work directory).
notScoreVars == <<schedVars, fusionVars, aggVars, pipeVars, runnerVars>>
notPipeVars == <<schedVars, fusionVars, scoreVars, runnerVars>>
\* What a command launched by run_pipeline.py never touches.
notRunnerVars == <<schedVars, fusionVars, scoreVars>>

(***************************************************************************)
(* Helpers.                                                                *)
(***************************************************************************)
SeqsUpTo(S, n) == UNION {[1..k -> S] : k \in 0..n}

\* Variant: the pool is walked once and then stays on its last device.
DeviceAt_NoWrap(devs, k) == devs[IF k < Len(devs) THEN k + 1 ELSE Len(devs)]

\* The value next(device_iter) yields on its (k+1)-th call.
DeviceAt(devs, k) == devs[(k % Len(devs)) + 1]

(***************************************************************************)
(* GPUScheduler.__init__ : a scheduler over a non-empty pool.              *)
(***************************************************************************)
SchedInit ==
    /\ devices \in (SeqsUpTo(DeviceIds, MaxDevices) \ {<<>>})
    /\ max_retries \in 0..MaxRetriesBound
    /\ submitted = <<>>
    /\ init_attempts = <<>>
    /\ attempts = <<>>
    /\ queue = <<>>
    /\ results = <<>>
    /\ device_pos = 0
    /\ calls = <<>>
    /\ returned = <<>>
    /\ pc = "idle"

(***************************************************************************)
(* dispatch(tasks, worker): entry. Tasks are named 1..n; every task is a   *)
(* distinct mutable object carrying its own attempts field.                *)
(***************************************************************************)
Dispatch ==
    /\ pc = "idle"
    /\ \E n \in 0..MaxTasks :
         \E a \in [1..n -> InitAttemptValues] :
            /\ submitted' = [i \in 1..n |-> i]
            /\ init_attempts' = a
            /\ attempts' = a
            /\ queue' = [i \in 1..n |-> i]
    /\ results' = <<>>
    /\ device_pos' = 0
    /\ pc' = "loop"
    /\ UNCHANGED <<devices, max_retries, calls, returned>>
    /\ UNCHANGED notSchedVars

\* One record of the worker being invoked: worker(task, device) with the
\* task's attempts as the worker sees them, and how the call ended.
Call(task, device, outcome) ==
    [task |-> task, device |-> device, attempts |-> attempts[task], outcome |-> outcome]

\* The value returned by a successful worker call is identified by the
\* 0-based index of the call.
\* Variant: the newest result is put in front of the list.
WorkerReturns_Prepend ==
    /\ pc = "loop"
    /\ queue # <<>>
    /\ LET task == Head(queue)
           device == DeviceAt(devices, device_pos)
       IN  /\ calls' = Append(calls, Call(task, device, "ok"))
           /\ results' = <<[task |-> task, device |-> device, value |-> Len(calls)]>>
                          \o results
    /\ queue' = Tail(queue)
    /\ device_pos' = device_pos + 1
    /\ UNCHANGED <<devices, max_retries, submitted, init_attempts, attempts, returned, pc>>
    /\ UNCHANGED notSchedVars

\* Variant: a successful invocation counts as an attempt.
WorkerReturns_CountsAttempt ==
    /\ pc = "loop"
    /\ queue # <<>>
    /\ LET task == Head(queue)
           device == DeviceAt(devices, device_pos)
       IN  /\ calls' = Append(calls, Call(task, device, "ok"))
           /\ results' = Append(results,
                  [task |-> task, device |-> device, value |-> Len(calls)])
           /\ attempts' = [attempts EXCEPT ![task] = @ + 1]
    /\ queue' = Tail(queue)
    /\ device_pos' = device_pos + 1
    /\ UNCHANGED <<devices, max_retries, submitted, init_attempts, returned, pc>>
    /\ UNCHANGED notSchedVars

(* One iteration of the while loop in which worker(task, device) returns. *)
WorkerReturns ==
    /\ pc = "loop"
    /\ queue # <<>>
    /\ LET task == Head(queue)
           device == DeviceAt(devices, device_pos)
       IN  /\ calls' = Append(calls, Call(task, device, "ok"))
           /\ results' = Append(results,
                  [task |-> task, device |-> device, value |-> Len(calls)])
    /\ queue' = Tail(queue)
    /\ device_pos' = device_pos + 1
    /\ UNCHANGED <<devices, max_retries, submitted, init_attempts, attempts, returned, pc>>
    /\ UNCHANGED notSchedVars

\* Variant: the failure is not counted, so the retries never run out.
WorkerRaisesRetryable_Uncounted ==
    /\ pc = "loop"
    /\ queue # <<>>
    /\ LET task == Head(queue)
           device == DeviceAt(devices, device_pos)
       IN  /\ calls' = Append(calls, Call(task, device, "retryable"))
           /\ IF attempts[task] > max_retries
                THEN /\ pc' = "raised_retryable"
                     /\ queue' = Tail(queue)
                ELSE /\ pc' = "loop"
                     /\ queue' = Append(Tail(queue), task)
    /\ device_pos' = device_pos + 1
    /\ UNCHANGED <<devices, max_retries, submitted, init_attempts, attempts,
                   results, returned>>
    /\ UNCHANGED notSchedVars

\* Variant: a task that fails retryably stays at the front of the queue.
WorkerRaisesRetryable_Front ==
    /\ pc = "loop"
    /\ queue # <<>>
    /\ LET task == Head(queue)
           device == DeviceAt(devices, device_pos)
           bumped == attempts[task] + 1
       IN  /\ calls' = Append(calls, Call(task, device, "retryable"))
           /\ attempts' = [attempts EXCEPT ![task] = bumped]
           /\ IF bumped > max_retries
                THEN /\ pc' = "raised_retryable"
                     /\ queue' = Tail(queue)
                ELSE /\ pc' = "loop"
                     /\ queue' = <<task>> \o Tail(queue)
    /\ device_pos' = device_pos + 1
    /\ UNCHANGED <<devices, max_retries, submitted, init_attempts, results, returned>>
    /\ UNCHANGED notSchedVars

\* Variant: a task that fails retryably is dropped instead of requeued.
WorkerRaisesRetryable_Drop ==
    /\ pc = "loop"
    /\ queue # <<>>
    /\ LET task == Head(queue)
           device == DeviceAt(devices, device_pos)
           bumped == attempts[task] + 1
       IN  /\ calls' = Append(calls, Call(task, device, "retryable"))
           /\ attempts' = [attempts EXCEPT ![task] = bumped]
           /\ IF bumped > max_retries
                THEN /\ pc' = "raised_retryable"
                     /\ queue' = Tail(queue)
                ELSE /\ pc' = "loop"
                     /\ queue' = Tail(queue)
    /\ device_pos' = device_pos + 1
    /\ UNCHANGED <<devices, max_retries, submitted, init_attempts, results, returned>>
    /\ UNCHANGED notSchedVars

\* Variant: the retry budget is compared off by one (one retry too many).
WorkerRaisesRetryable_OffByOne ==
    /\ pc = "loop"
    /\ queue # <<>>
    /\ LET task == Head(queue)
           device == DeviceAt(devices, device_pos)
           bumped == attempts[task] + 1
       IN  /\ calls' = Append(calls, Call(task, device, "retryable"))
           /\ attempts' = [attempts EXCEPT ![task] = bumped]
           /\ IF bumped > max_retries + 1
                THEN /\ pc' = "raised_retryable"
                     /\ queue' = Tail(queue)
                ELSE /\ pc' = "loop"
                     /\ queue' = Append(Tail(queue), task)
    /\ device_pos' = device_pos + 1
    /\ UNCHANGED <<devices, max_retries, submitted, init_attempts, results, returned>>
    /\ UNCHANGED notSchedVars

(* One iteration in which worker(task, device) raises RetryableError. *)
WorkerRaisesRetryable ==
    /\ pc = "loop"
    /\ queue # <<>>
    /\ LET task == Head(queue)
           device == DeviceAt(devices, device_pos)
           bumped == attempts[task] + 1
       IN  /\ calls' = Append(calls, Call(task, device, "retryable"))
           /\ attempts' = [attempts EXCEPT ![task] = bumped]
           /\ IF bumped > max_retries
                THEN /\ pc' = "raised_retryable"
                     /\ queue' = Tail(queue)
                ELSE /\ pc' = "loop"
                     /\ queue' = Append(Tail(queue), task)
    /\ device_pos' = device_pos + 1
    /\ UNCHANGED <<devices, max_retries, submitted, init_attempts, results, returned>>
    /\ UNCHANGED notSchedVars

\* Variant: every exception of the worker is handled like RetryableError.
WorkerRaisesOther_Retried ==
    /\ pc = "loop"
    /\ queue # <<>>
    /\ LET task == Head(queue)
           device == DeviceAt(devices, device_pos)
           bumped == attempts[task] + 1
       IN  /\ calls' = Append(calls, Call(task, device, "other"))
           /\ attempts' = [attempts EXCEPT ![task] = bumped]
           /\ IF bumped > max_retries
                THEN /\ pc' = "raised_other"
                     /\ queue' = Tail(queue)
                ELSE /\ pc' = "loop"
                     /\ queue' = Append(Tail(queue), task)
    /\ device_pos' = device_pos + 1
    /\ UNCHANGED <<devices, max_retries, submitted, init_attempts, results, returned>>
    /\ UNCHANGED notSchedVars

(* One iteration in which worker(task, device) raises any other exception. *)
WorkerRaisesOther ==
    /\ pc = "loop"
    /\ queue # <<>>
    /\ LET task == Head(queue)
           device == DeviceAt(devices, device_pos)
       IN  calls' = Append(calls, Call(task, device, "other"))
    /\ queue' = Tail(queue)
    /\ device_pos' = device_pos + 1
    /\ pc' = "raised_other"
    /\ UNCHANGED <<devices, max_retries, submitted, init_attempts, attempts, results, returned>>
    /\ UNCHANGED notSchedVars

(* The loop condition is false: return results. *)
DispatchReturns ==
    /\ pc = "loop"
    /\ queue = <<>>
    /\ returned' = <<results>>
    /\ pc' = "returned"
    /\ UNCHANGED <<devices, max_retries, submitted, init_attempts, attempts, queue,
                   results, device_pos, calls>>
    /\ UNCHANGED notSchedVars

SchedNext ==
    \/ Dispatch
    \/ WorkerReturns
    \/ WorkerRaisesRetryable
    \/ WorkerRaisesOther
    \/ DispatchReturns

\* No fusion function has been called.
NotCalled == [status |-> "none", value |-> <<>>]

FusionIdle ==
    /\ rank_lists = <<>>
    /\ weights = <<>>
    /\ constant = 60
    /\ wrrf_result = NotCalled
    /\ war_result = NotCalled

\* run_aggregate has not run and there is no work directory.
NoFile == [exists |-> FALSE, rows |-> <<>>]
NotAggregated == [status |-> "none", inputs |-> <<>>, global_ranking |-> <<>>]

AggIdle ==
    /\ stage_files = <<NoFile, NoFile, NoFile>>
    /\ stage_weights = << <<2, 5>>, <<7, 20>>, <<1, 4>> >>
    /\ consensus_constant = 60
    /\ wrrf_calls = <<>>
    /\ agg_result = NotAggregated

\* deterministic_score has not been called.
ScoreIdle ==
    /\ hash_seed = 0
    /\ components = <<>>
    /\ score_result = NotCalled

\* No stage command has run: the defaults of PipelineSettings, no input rows
\* and no aggregate file.
NoAggregateFile == [exists |-> FALSE, inputs |-> <<>>, global_ranking |-> <<>>]
NotRun == [command |-> "none", status |-> "none", error |-> "", devices |-> <<>>]
DefaultPipeline ==
    [devices |-> <<0>>, chunk_size |-> 32,
     dti_top_k |-> 5, docking_top_k |-> 5, mmgbsa_top_k |-> 5]

PipeIdle ==
    /\ input_rows = <<>>
    /\ pipeline_raw = DefaultPipeline
    /\ cli_devices = <<>>
    /\ aggregate_file = NoAggregateFile
    /\ last_run = NotRun
    /\ chain = 0
    /\ first_snapshot = NoAggregateFile
    /\ reran = FALSE

\* run_pipeline.py is not running; the input file is there and no report is.
NoReport == [exists |-> FALSE, inputs |-> <<>>, global_ranking |-> <<>>]

RunnerIdle ==
    /\ sequences_exists = TRUE
    /\ report_file = NoReport
    /\ runner_index = 1
    /\ runner_pc = "idle"
    /\ started = <<>>
    /\ finished = <<>>

SchedSpecInit == SchedInit /\ FusionIdle /\ AggIdle /\ ScoreIdle /\ PipeIdle /\ RunnerIdle

SpecSched == SchedSpecInit /\ [][SchedNext]_vars


(***************************************************************************)
(* Observations on the history of worker invocations.                      *)
(***************************************************************************)
CallsOf(t) == {k \in 1..Len(calls) : calls[k].task = t}

\* The first invocation of task t after invocation k, or 0 when none.
NextCallOf(t, k) ==
    LET later == {j \in CallsOf(t) : j > k}
    IN  IF later = {} THEN 0 ELSE CHOOSE j \in later : \A i \in later : j <= i

InQueue(t) == \E i \in 1..Len(queue) : queue[i] = t

ResultsOf(rs, t) == {i \in 1..Len(rs) : rs[i].task = t}

(***************************************************************************)
(* C1: the k-th worker invocation (k = 0, 1, ... over every popped task,   *)
(* retried ones included) receives devices[k mod len(devices)]; devices    *)
(* [0,1] with four tasks that never fail are assigned [0,1,0,1].           *)
(***************************************************************************)
C1_RoundRobin ==
    /\ \A k \in 1..Len(calls) :
          calls[k].device = devices[((k - 1) % Len(devices)) + 1]
    /\ device_pos = Len(calls)
    /\ ( /\ devices = <<0, 1>>
         /\ Len(submitted) = 4
         /\ pc = "returned"
         /\ \A k \in 1..Len(calls) : calls[k].outcome = "ok" )
       => [k \in 1..Len(calls) |-> calls[k].device] = <<0, 1, 0, 1>>

\* A retried task was re-invoked after the pool index wrapped around.
C1_Witness ==
    /\ devices = <<0, 1>>
    /\ Len(calls) >= 4
    /\ \E k \in 1..Len(calls) : calls[k].outcome = "retryable"
    /\ calls[3].device = 0
    /\ calls[4].device = 1

(***************************************************************************)
(* C2: after a RetryableError that leaves attempts <= max_retries the task *)
(* waits in the queue with attempts one higher and its next invocation     *)
(* sees exactly that value; dispatch does not return before re-invoking    *)
(* it.  Once a task has succeeded the results hold exactly one entry for   *)
(* it, carrying the value of the successful invocation, and no entry       *)
(* carries the value of a failed invocation.  One device, max_retries = 1, *)
(* a worker failing only on its first call: attempts seen are [0,1] and    *)
(* exactly one result is returned.                                         *)
(***************************************************************************)
C2_RetryThenSuccess ==
    /\ \A k \in 1..Len(calls) :
          (calls[k].outcome = "retryable" /\ calls[k].attempts + 1 <= max_retries)
          => LET t == calls[k].task
                 j == NextCallOf(t, k)
             IN  IF j = 0
                   THEN /\ pc # "returned"
                        /\ pc = "loop" => (InQueue(t) /\ attempts[t] = calls[k].attempts + 1)
                   ELSE calls[j].attempts = calls[k].attempts + 1
    /\ \A k \in 1..Len(calls) :
          calls[k].outcome = "ok"
          => LET t == calls[k].task
             IN  /\ Cardinality(ResultsOf(results, t)) = 1
                 /\ \A i \in ResultsOf(results, t) : results[i].value = k - 1
    /\ \A i \in 1..Len(results) : calls[results[i].value + 1].outcome = "ok"
    /\ pc = "returned" => returned = <<results>>
    /\ ( /\ Len(devices) = 1
         /\ max_retries = 1
         /\ Len(submitted) = 1
         /\ init_attempts = <<0>>
         /\ pc = "returned"
         /\ calls[1].outcome = "retryable"
         /\ \A k \in 2..Len(calls) : calls[k].outcome = "ok" )
       => /\ [k \in 1..Len(calls) |-> calls[k].attempts] = <<0, 1>>
          /\ Len(returned[1]) = 1
          /\ returned[1][1].value = 1

\* The retry-then-success run of the scheduler test, after dispatch returned.
C2_Witness ==
    /\ Len(devices) = 1
    /\ max_retries = 1
    /\ Len(submitted) = 1
    /\ init_attempts = <<0>>
    /\ pc = "returned"
    /\ Len(calls) = 2
    /\ calls[1].outcome = "retryable"
    /\ calls[2].outcome = "ok"
    /\ Len(returned[1]) = 1

(***************************************************************************)
(* C3: a retryable failure that brings the task's attempts above           *)
(* max_retries is fatal: it is the last worker invocation, dispatch has    *)
(* raised and returned nothing, although tasks had completed and others    *)
(* were still queued.  With max_retries = 0 the first retryable failure is *)
(* fatal.                                                                  *)
(***************************************************************************)
C3_RetryExhaustionFatal ==
    /\ \A k \in 1..Len(calls) :
          (calls[k].outcome = "retryable" /\ calls[k].attempts + 1 > max_retries)
          => /\ k = Len(calls)
             /\ pc = "raised_retryable"
             /\ returned = <<>>
             /\ ~InQueue(calls[k].task)
    /\ max_retries = 0
       => \A k \in 1..Len(calls) :
             calls[k].outcome = "retryable" => (k = Len(calls) /\ pc = "raised_retryable")
    /\ pc = "raised_retryable" => returned = <<>>

\* Retries are exhausted after a task completed and while a task is queued.
C3_Witness ==
    /\ pc = "raised_retryable"
    /\ results # <<>>
    /\ queue # <<>>
    /\ calls[Len(calls)].attempts + 1 > max_retries
    /\ returned = <<>>

(***************************************************************************)
(* C4: a worker failure that is not a RetryableError is fatal at once,     *)
(* whatever max_retries is: it is the last worker invocation, the task is  *)
(* not requeued, its attempts are not incremented and nothing is returned. *)
(***************************************************************************)
C4_OtherFailureFatal ==
    \A k \in 1..Len(calls) :
       calls[k].outcome = "other"
       => /\ k = Len(calls)
          /\ pc = "raised_other"
          /\ returned = <<>>
          /\ ~InQueue(calls[k].task)
          /\ attempts[calls[k].task] = calls[k].attempts

\* A non-retryable failure with retries left and tasks still queued.
C4_Witness ==
    /\ pc = "raised_other"
    /\ max_retries >= 1
    /\ attempts[calls[Len(calls)].task] < max_retries
    /\ queue # <<>>
    /\ results # <<>>

(***************************************************************************)
(* More observations on the history of worker invocations.                 *)
(***************************************************************************)
\* The invocations that returned, in order: the order of completion.
OkCalls == SelectSeq(calls, LAMBDA c : c.outcome = "ok")

\* The tasks waiting in the queue while invocation k runs: every submitted
\* task but the one invoked that had not completed before invocation k.
WaitingAt(k) ==
    {u \in 1..Len(submitted) :
        /\ u # calls[k].task
        /\ ~\E i \in 1..(k - 1) : calls[i].task = u /\ calls[i].outcome = "ok"}

\* The number of RetryableErrors raised so far by invocations on task t.
RetryableRaised(t) ==
    Cardinality({k \in CallsOf(t) : calls[k].outcome = "retryable"})

(***************************************************************************)
(* C24: when dispatch returns normally the queue is empty and every        *)
(* submitted task is in the results exactly once, with no result of a      *)
(* task that was not submitted; the results are in the order in which the  *)
(* tasks completed, which is submission order when no retry occurred.      *)
(***************************************************************************)
C24_ReturnsEveryTaskOnce ==
    pc = "returned"
    => /\ queue = <<>>
       /\ Len(returned[1]) = Len(submitted)
       /\ \A t \in 1..Len(submitted) : Cardinality(ResultsOf(returned[1], t)) = 1
       /\ \A i \in 1..Len(returned[1]) : returned[1][i].task \in 1..Len(submitted)
       /\ [i \in 1..Len(returned[1]) |-> returned[1][i].task]
            = [i \in 1..Len(OkCalls) |-> OkCalls[i].task]
       /\ (\A k \in 1..Len(calls) : calls[k].outcome = "ok")
          => [i \in 1..Len(returned[1]) |-> returned[1][i].task] = submitted

\* Three tasks, the first one retried: it completes last.
C24_Witness ==
    /\ pc = "returned"
    /\ Len(submitted) = 3
    /\ calls[1].outcome = "retryable"
    /\ [i \in 1..Len(returned[1]) |-> returned[1][i].task] = <<2, 3, 1>>

(***************************************************************************)
(* C25: FIFO with back-requeue.  Tasks are first invoked in submission     *)
(* order, and a task that failed retryably is invoked again only after     *)
(* every task that was waiting in the queue at the moment of its failure   *)
(* has been invoked: it never jumps ahead of a task queued before.         *)
(***************************************************************************)
C25_FifoBackRequeue ==
    /\ \A k \in 1..Len(calls) :
          \A u \in 1..Len(submitted) :
             u < calls[k].task => \E i \in 1..(k - 1) : calls[i].task = u
    /\ \A k \in 1..Len(calls) :
          calls[k].outcome = "retryable"
          => LET t == calls[k].task
                 j == NextCallOf(t, k)
             IN  /\ j # 0 =>
                       \A u \in WaitingAt(k) :
                          \E i \in (k + 1)..(j - 1) : calls[i].task = u
                 /\ (j = 0 /\ pc = "loop") =>
                       \A u \in WaitingAt(k) :
                          \/ \E i \in (k + 1)..Len(calls) : calls[i].task = u
                          \/ \E a, b \in 1..Len(queue) :
                                a < b /\ queue[a] = u /\ queue[b] = t

\* A task failed while two others waited, one of them not yet invoked, and
\* was invoked again after both.
C25_Witness ==
    \E k \in 1..Len(calls) :
       /\ calls[k].outcome = "retryable"
       /\ Cardinality(WaitingAt(k)) >= 2
       /\ \E u \in WaitingAt(k) : ~\E i \in 1..k : calls[i].task = u
       /\ NextCallOf(calls[k].task, k) > k + 2

(***************************************************************************)
(* dispatch under the assumption that every worker call returns or raises  *)
(* and that the caller does call dispatch: some step of the scheduler is   *)
(* taken whenever one is possible.                                         *)
(***************************************************************************)
SpecSchedFair == SchedSpecInit /\ [][SchedNext]_vars /\ WF_vars(SchedNext)

\* dispatch has returned its results or propagated a failure.
Terminated == pc \in {"returned", "raised_retryable", "raised_other"}

(***************************************************************************)
(* C26: dispatch terminates for every finite task list and every worker    *)
(* behaviour.  A task submitted with attempts 0 is invoked at most         *)
(* max_retries + 1 times, the worker is invoked at most                    *)
(* n * (max_retries + 1) times for n tasks, and a dispatch that entered    *)
(* its loop ends by returning the results or propagating a failure.        *)
(***************************************************************************)
C26_Terminates ==
    /\ [](\A t \in 1..Len(submitted) :
             init_attempts[t] = 0 => Cardinality(CallsOf(t)) <= max_retries + 1)
    /\ [](Len(calls) <= Len(submitted) * (max_retries + 1))
    /\ (pc = "loop") ~> Terminated

\* Two tasks were each retried as often as allowed and then completed: the
\* worker was invoked n * (max_retries + 1) times and dispatch returned.
C26_Witness ==
    /\ pc = "returned"
    /\ Len(submitted) = 2
    /\ max_retries = 2
    /\ init_attempts = <<0, 0>>
    /\ Len(calls) = Len(submitted) * (max_retries + 1)

(***************************************************************************)
(* C28 as stated: each task's attempts equal its value at submission plus  *)
(* the number of RetryableErrors raised so far by invocations on it, and   *)
(* every task that is in the queue or in the results has attempts <=       *)
(* max_retries.                                                            *)
(***************************************************************************)
C28_AsStated ==
    /\ \A t \in 1..Len(attempts) : attempts[t] = init_attempts[t] + RetryableRaised(t)
    /\ \A t \in 1..Len(attempts) :
          (InQueue(t) \/ ResultsOf(results, t) # {}) => attempts[t] <= max_retries

(***************************************************************************)
(* C28 amended: each task's attempts equal its value at submission plus    *)
(* the number of RetryableErrors raised so far by invocations on it; a     *)
(* successful invocation, a device assignment, a failure that is not       *)
(* retryable or another task's failure never changes it; every task in     *)
(* the queue or in the results has attempts <= max_retries when it was     *)
(* submitted with attempts <= max_retries, and attempts equal to its value *)
(* at submission otherwise.                                                *)
(***************************************************************************)
C28_AttemptCounter ==
    /\ \A t \in 1..Len(attempts) : attempts[t] = init_attempts[t] + RetryableRaised(t)
    /\ \A t \in 1..Len(attempts) :
          (InQueue(t) \/ ResultsOf(results, t) # {})
          => IF init_attempts[t] <= max_retries
               THEN attempts[t] <= max_retries
               ELSE attempts[t] = init_attempts[t]
    /\ \A k \in 1..Len(calls) :
          calls[k].attempts
            = init_attempts[calls[k].task]
              + Cardinality({i \in CallsOf(calls[k].task) :
                                i < k /\ calls[i].outcome = "retryable"})

\* A task submitted with attempts 1 was retried once and completed, after
\* another task completed and a third failed without being retryable.
C28_Witness ==
    /\ pc = "raised_other"
    /\ max_retries = 2
    /\ \E t \in 1..Len(attempts) :
          /\ init_attempts[t] = 1
          /\ attempts[t] = 2
          /\ ResultsOf(results, t) # {}
    /\ \E t \in 1..Len(attempts) :
          /\ init_attempts[t] = 0
          /\ attempts[t] = 0
          /\ ResultsOf(results, t) # {}


(***************************************************************************)
(* Exact rationals <<num, den>> with den > 0, in lowest terms, standing    *)
(* for the Python floats of consensus.py and aggregate.py.                 *)
(***************************************************************************)
Abs(x) == IF x < 0 THEN -x ELSE x

RECURSIVE GCD(_, _)
GCD(a, b) == IF b = 0 THEN a ELSE GCD(b, a % b)

Rat(n, d) ==
    LET sgn == IF d < 0 THEN -1 ELSE 1
        g == GCD(Abs(n), Abs(d))
    IN  <<(sgn * n) \div g, (sgn * d) \div g>>

RZero == <<0, 1>>
RAdd(a, b) == Rat(a[1] * b[2] + b[1] * a[2], a[2] * b[2])
RMulInt(a, k) == Rat(a[1] * k, a[2])
RDivInt(a, k) == Rat(a[1], a[2] * k)
RDiv(a, b) == Rat(a[1] * b[2], a[2] * b[1])
RLess(a, b) == a[1] * b[2] < b[1] * a[2]
RLeq(a, b) == a[1] * b[2] <= b[1] * a[2]
RPos(a) == a[1] > 0

\* sum(values) of a sequence of rationals.
RECURSIVE RSumFrom(_, _)
RSumFrom(values, i) ==
    IF i > Len(values) THEN RZero ELSE RAdd(values[i], RSumFrom(values, i + 1))

RSum(values) == RSumFrom(values, 1)

(***************************************************************************)
(* A Python dict: a sequence of <<key, value>> pairs in insertion order,   *)
(* with distinct keys.                                                     *)
(***************************************************************************)
DictKeys(d) == {d[i][1] : i \in 1..Len(d)}

DictGet(d, key, default) ==
    IF key \in DictKeys(d)
      THEN d[CHOOSE i \in 1..Len(d) : d[i][1] = key][2]
      ELSE default

\* d[key] = value: an existing key keeps its position, a new key goes last.
DictPut(d, key, value) ==
    IF key \in DictKeys(d)
      THEN [i \in 1..Len(d) |-> IF d[i][1] = key THEN <<key, value>> ELSE d[i]]
      ELSE Append(d, <<key, value>>)

\* Variant: an element is placed before the elements equal to it.
InsertDesc_BeforeEqual(sorted, item) ==
    LET lower == {i \in 1..Len(sorted) : RLeq(sorted[i][2], item[2])}
        pos == IF lower = {} THEN Len(sorted) + 1
               ELSE CHOOSE i \in lower : \A j \in lower : i <= j
    IN  SubSeq(sorted, 1, pos - 1) \o <<item>> \o SubSeq(sorted, pos, Len(sorted))

\* One step of the stable descending sort: item goes before the first
\* element with a strictly smaller value, after every element >= it.
InsertDesc(sorted, item) ==
    LET lower == {i \in 1..Len(sorted) : RLess(sorted[i][2], item[2])}
        pos == IF lower = {} THEN Len(sorted) + 1
               ELSE CHOOSE i \in lower : \A j \in lower : i <= j
    IN  SubSeq(sorted, 1, pos - 1) \o <<item>> \o SubSeq(sorted, pos, Len(sorted))

RECURSIVE SortedDescFrom(_, _, _)
SortedDescFrom(items, i, acc) ==
    IF i > Len(items) THEN acc
    ELSE SortedDescFrom(items, i + 1, InsertDesc(acc, items[i]))

\* sorted(items, key=lambda item: item[1], reverse=True): stable.
SortedDesc(items) == SortedDescFrom(items, 1, <<>>)

Returned(value) == [status |-> "returned", value |-> value]
Raised == [status |-> "raised", value |-> <<>>]

(***************************************************************************)
(* weighted_reciprocal_rank_fusion                                         *)
(***************************************************************************)
\* The inner loop: for index, candidate in enumerate(ranking, start=1).
RECURSIVE FuseRanking(_, _, _, _, _)
FuseRanking(fused, ranking, weight, c, index) ==
    IF index > Len(ranking) THEN fused
    ELSE LET candidate == ranking[index]
             score == RAdd(DictGet(fused, candidate, RZero), RDivInt(weight, c + index))
         IN  FuseRanking(DictPut(fused, candidate, score), ranking, weight, c, index + 1)

\* Variant: only lists of negative weight are skipped.
RECURSIVE FuseLists_SkipNegativeOnly(_, _, _, _, _)
FuseLists_SkipNegativeOnly(fused, lists, ws, c, i) ==
    IF i > Len(lists) THEN fused
    ELSE IF ws[i][1] < 0 THEN FuseLists_SkipNegativeOnly(fused, lists, ws, c, i + 1)
    ELSE FuseLists_SkipNegativeOnly(FuseRanking(fused, lists[i], ws[i], c, 1), lists, ws, c, i + 1)

\* The outer loop: for ranking, weight in zip(rank_lists, weights).
RECURSIVE FuseLists(_, _, _, _, _)
FuseLists(fused, lists, ws, c, i) ==
    IF i > Len(lists) THEN fused
    ELSE IF ~RPos(ws[i]) THEN FuseLists(fused, lists, ws, c, i + 1)
    ELSE FuseLists(FuseRanking(fused, lists[i], ws[i], c, 1), lists, ws, c, i + 1)

\* Variant: only a negative constant is rejected.
weighted_reciprocal_rank_fusion_ZeroConstant(lists, ws, c) ==
    IF Len(lists) # Len(ws) THEN Raised
    ELSE IF c < 0 THEN Raised
    ELSE Returned(SortedDesc(FuseLists(<<>>, lists, ws, c, 1)))

weighted_reciprocal_rank_fusion(lists, ws, c) ==
    IF Len(lists) # Len(ws) THEN Raised
    ELSE IF c <= 0 THEN Raised
    ELSE Returned(SortedDesc(FuseLists(<<>>, lists, ws, c, 1)))

(***************************************************************************)
(* weighted_average_rank                                                   *)
(***************************************************************************)
\* Variant: positions are counted from 0.
RECURSIVE TotalRanking_ZeroBased(_, _, _, _)
TotalRanking_ZeroBased(totals, ranking, weight, index) ==
    IF index > Len(ranking) THEN totals
    ELSE LET candidate == ranking[index]
             score == RAdd(DictGet(totals, candidate, RZero), RMulInt(weight, index - 1))
         IN  TotalRanking_ZeroBased(DictPut(totals, candidate, score), ranking, weight, index + 1)

\* The inner loop: totals[candidate] += weight * index.
RECURSIVE TotalRanking(_, _, _, _)
TotalRanking(totals, ranking, weight, index) ==
    IF index > Len(ranking) THEN totals
    ELSE LET candidate == ranking[index]
             score == RAdd(DictGet(totals, candidate, RZero), RMulInt(weight, index))
         IN  TotalRanking(DictPut(totals, candidate, score), ranking, weight, index + 1)

RECURSIVE TotalLists(_, _, _, _)
TotalLists(totals, lists, ws, i) ==
    IF i > Len(lists) THEN totals
    ELSE TotalLists(TotalRanking(totals, lists[i], ws[i], 1), lists, ws, i + 1)

weighted_average_rank(lists, ws) ==
    IF Len(lists) # Len(ws) THEN Raised
    ELSE LET weight_sum == RSum(ws)
         IN  IF ~RPos(weight_sum) THEN Raised
             ELSE LET totals == TotalLists(<<>>, lists, ws, 1)
                  IN  Returned([i \in 1..Len(totals) |->
                                  <<totals[i][1], RDiv(totals[i][2], weight_sum)>>])

(***************************************************************************)
(* The fusion functions applied to arguments drawn from bounded sets.      *)
(***************************************************************************)
\* Rankings: sequences of distinct candidates.
Rankings ==
    {r \in SeqsUpTo(Candidates, Cardinality(Candidates)) :
        \A i, j \in 1..Len(r) : r[i] = r[j] => i = j}

WeightValues == {Rat(w, 10) : w \in WeightTenths}

TotalLen(lists) == RSum([i \in 1..Len(lists) |-> <<Len(lists[i]), 1>>])[1]

SchedIdle ==
    /\ devices = <<0>>
    /\ max_retries = 1
    /\ submitted = <<>>
    /\ init_attempts = <<>>
    /\ attempts = <<>>
    /\ queue = <<>>
    /\ results = <<>>
    /\ device_pos = 0
    /\ calls = <<>>
    /\ returned = <<>>
    /\ pc = "idle"

FusionInit ==
    /\ rank_lists \in {ls \in SeqsUpTo(Rankings, MaxLists) : TotalLen(ls) <= MaxEntries}
    /\ weights \in SeqsUpTo(WeightValues, MaxLists)
    /\ constant \in FusionConstants
    /\ wrrf_result = NotCalled
    /\ war_result = NotCalled

CallWRRF ==
    /\ wrrf_result = NotCalled
    /\ war_result = NotCalled
    /\ wrrf_result' = weighted_reciprocal_rank_fusion(rank_lists, weights, constant)
    /\ UNCHANGED <<rank_lists, weights, constant, war_result>>
    /\ UNCHANGED notFusionVars

CallWAR ==
    /\ wrrf_result = NotCalled
    /\ war_result = NotCalled
    /\ war_result' = weighted_average_rank(rank_lists, weights)
    /\ UNCHANGED <<rank_lists, weights, constant, wrrf_result>>
    /\ UNCHANGED notFusionVars

FusionNext ==
    \/ CallWRRF
    \/ CallWAR

FusionSpecInit == FusionInit /\ SchedIdle /\ AggIdle /\ ScoreIdle /\ PipeIdle /\ RunnerIdle

SpecFusion == FusionSpecInit /\ [][FusionNext]_vars


(***************************************************************************)
(* Reading a fusion call: which lists count, the 1-based rank of a         *)
(* candidate in a list, and the closed form of the fused value.            *)
(***************************************************************************)
Contains(ranking, c) == \E p \in 1..Len(ranking) : ranking[p] = c

RankIn(ranking, c) == CHOOSE p \in 1..Len(ranking) : ranking[p] = c

\* The lists of weight > 0 that contain c.
ScoringLists(c) ==
    {i \in 1..Len(rank_lists) : RPos(weights[i]) /\ Contains(rank_lists[i], c)}

\* The lists, of any weight, that contain c.
ListsWith(c) == {i \in 1..Len(rank_lists) : Contains(rank_lists[i], c)}

ReciprocalTerm(c, i) == RDivInt(weights[i], constant + RankIn(rank_lists[i], c))

ClosedFused(c) ==
    RSum([i \in 1..Len(rank_lists) |->
            IF i \in ScoringLists(c) THEN ReciprocalTerm(c, i) ELSE RZero])

RankTerm(c, i) == RMulInt(weights[i], RankIn(rank_lists[i], c))

ClosedAverage(c) ==
    RDiv(RSum([i \in 1..Len(rank_lists) |->
                 IF i \in ListsWith(c) THEN RankTerm(c, i) ELSE RZero]),
         RSum(weights))

\* Where the fusion loop first meets c: <<list, position>> over the lists
\* it does not skip.
FirstSeen(c) ==
    LET i == CHOOSE x \in ScoringLists(c) : \A y \in ScoringLists(c) : x <= y
    IN  <<i, RankIn(rank_lists[i], c)>>

SeenBefore(a, b) ==
    \/ FirstSeen(a)[1] < FirstSeen(b)[1]
    \/ FirstSeen(a)[1] = FirstSeen(b)[1] /\ FirstSeen(a)[2] < FirstSeen(b)[2]

(***************************************************************************)
(* C7: WRRF returns exactly the candidates of the lists of weight > 0,     *)
(* each with fused(c) = sum over those lists containing c of               *)
(* weight_i / (constant + rank_i(c)), ranks 1-based; lists of weight <= 0  *)
(* are skipped, so a candidate found only in such lists is absent.         *)
(***************************************************************************)
C7_WRRFFormula ==
    wrrf_result.status = "returned"
    => /\ DictKeys(wrrf_result.value) = {c \in Candidates : ScoringLists(c) # {}}
       /\ \A c \in DictKeys(wrrf_result.value) :
             DictGet(wrrf_result.value, c, RZero) = ClosedFused(c)
       /\ \A i, j \in 1..Len(wrrf_result.value) :
             wrrf_result.value[i][1] = wrrf_result.value[j][1] => i = j

\* A candidate of a scoring list and of a skipped list gets the term of the
\* scoring list only, while another occurs only in the skipped list.
C7_Witness ==
    /\ wrrf_result.status = "returned"
    /\ \E c \in Candidates :
          /\ Cardinality(ScoringLists(c)) = 1
          /\ Cardinality(ListsWith(c)) = 2
          /\ c \in DictKeys(wrrf_result.value)
    /\ \E c \in Candidates :
          /\ ListsWith(c) # {}
          /\ ScoringLists(c) = {}
          /\ c \notin DictKeys(wrrf_result.value)

(***************************************************************************)
(* C8: the WRRF result is ordered by non-increasing fused score and        *)
(* candidates with equal scores keep the order in which the fusion first   *)
(* met them (earlier list first, then position).  Lists [X,Y,Z], [Y,X,Z]   *)
(* with weights 0.5/0.5 and constant 10: fused(X) = fused(Y) > fused(Z)    *)
(* and X comes first.                                                      *)
(***************************************************************************)
C8_WRRFOrder ==
    wrrf_result.status = "returned"
    => LET out == wrrf_result.value
       IN  /\ \A i, j \in 1..Len(out) : i < j => RLeq(out[j][2], out[i][2])
           /\ \A i, j \in 1..Len(out) :
                 (i < j /\ out[i][2] = out[j][2]) => SeenBefore(out[i][1], out[j][1])
           /\ ( /\ rank_lists = << <<"X", "Y", "Z">>, <<"Y", "X", "Z">> >>
                /\ weights = << <<1, 2>>, <<1, 2>> >>
                /\ constant = 10 )
              => /\ DictGet(out, "X", RZero) = DictGet(out, "Y", RZero)
                 /\ RLess(DictGet(out, "Z", RZero), DictGet(out, "X", RZero))
                 /\ out[1][1] = "X"
                 /\ Len(out) = 3

\* The symmetric two-list case of the consensus test.
C8_Witness ==
    /\ wrrf_result.status = "returned"
    /\ rank_lists = << <<"X", "Y", "Z">>, <<"Y", "X", "Z">> >>
    /\ weights = << <<1, 2>>, <<1, 2>> >>
    /\ constant = 10
    /\ wrrf_result.value[1][1] = "X"
    /\ wrrf_result.value[1][2] = wrrf_result.value[2][2]

(***************************************************************************)
(* C9: weighted_average_rank returns, for exactly the candidates of the    *)
(* lists, (sum over the lists containing c of weight_i * rank_i(c))        *)
(* divided by the sum of the weights of all lists.  [A,B,C] weight 0.7 and *)
(* [B,A,C] weight 0.3 (here X,Y,Z) give 1.3, 1.7 and 3.0.                  *)
(***************************************************************************)
C9_WeightedAverageRank ==
    war_result.status = "returned"
    => LET out == war_result.value
       IN  /\ DictKeys(out) = {c \in Candidates : ListsWith(c) # {}}
           /\ \A c \in DictKeys(out) : DictGet(out, c, RZero) = ClosedAverage(c)
           /\ \A i, j \in 1..Len(out) : out[i][1] = out[j][1] => i = j
           /\ ( /\ rank_lists = << <<"X", "Y", "Z">>, <<"Y", "X", "Z">> >>
                /\ weights = << <<7, 10>>, <<3, 10>> >> )
              => /\ DictGet(out, "X", RZero) = <<13, 10>>
                 /\ DictGet(out, "Y", RZero) = <<17, 10>>
                 /\ DictGet(out, "Z", RZero) = <<3, 1>>

\* A candidate missing from a list whose weight still counts in the divisor.
C9_Witness ==
    /\ war_result.status = "returned"
    /\ Len(rank_lists) = 2
    /\ \E c \in Candidates :
          /\ ListsWith(c) = {1}
          /\ weights[2][1] > 0
          /\ DictGet(war_result.value, c, RZero)
               = RDiv(RMulInt(weights[1], RankIn(rank_lists[1], c)), RAdd(weights[1], weights[2]))

(***************************************************************************)
(* C10: weighted_average_rank fails exactly when the lengths differ or the *)
(* total weight is <= 0; weighted_reciprocal_rank_fusion fails exactly     *)
(* when the lengths differ or constant <= 0; a failing call returns no     *)
(* result and every other call returns one.                                *)
(***************************************************************************)
C10_FusionParameterErrors ==
    /\ war_result # NotCalled
       => /\ war_result.status = "raised"
               <=> (Len(rank_lists) # Len(weights) \/ RLeq(RSum(weights), RZero))
          /\ war_result.status \in {"raised", "returned"}
          /\ war_result.status = "raised" => war_result.value = <<>>
    /\ wrrf_result # NotCalled
       => /\ wrrf_result.status = "raised"
               <=> (Len(rank_lists) # Len(weights) \/ constant <= 0)
          /\ wrrf_result.status \in {"raised", "returned"}
          /\ wrrf_result.status = "raised" => wrrf_result.value = <<>>

\* Matching lengths, a zero constant rejected by WRRF.
C10_Witness ==
    /\ wrrf_result.status = "raised"
    /\ Len(rank_lists) = Len(weights)
    /\ Len(rank_lists) = 2
    /\ constant = 0
    /\ RPos(RSum(weights))


(***************************************************************************)
(* run_aggregate (duet_screen/pipeline/aggregate.py).  A stage file is a   *)
(* sequence of rows [input_id, partner_id, score]; input ids are numbered  *)
(* in their sorted() order; partner_type, generated_at and config_digest   *)
(* play no part in the ranking and are left out.                           *)
(***************************************************************************)
StageNames == <<"dti", "docking", "mmgbsa">>

InputIds == {1, 2}
PartnerIds == {"P", "Q"}
ScoreValues == {Rat(2, 10), Rat(8, 10)}
AggConstants == {0, 10}

\* Raw stage_weights of a configuration file, in tenths.
RawStageWeights ==
    { <<5, 3, 2>>, <<10, 0, 0>>, <<-5, 10, 5>>, <<0, 0, 0>> }

\* The absent score of a partner in a stage (Python None).
None == <<0, 0>>

Rows == [input_id : InputIds, partner_id : PartnerIds, score : ScoreValues]

\* StageWeights.normalized(), applied by _build_config; it raises when the
\* total is <= 0, in which case no configuration exists.
StageWeightsNormalized(raw) ==
    LET total == raw[1] + raw[2] + raw[3]
    IN  [k \in 1..3 |-> Rat(raw[k], total)]

ConfiguredWeights ==
    {StageWeightsNormalized(raw) : raw \in {r \in RawStageWeights : r[1] + r[2] + r[3] > 0}}

\* _load_stage: scores.setdefault(input_id, {})[partner_id] = score
RECURSIVE LoadStageFrom(_, _, _)
LoadStageFrom(rows, i, scores) ==
    IF i > Len(rows) THEN scores
    ELSE LET row == rows[i]
             inner == DictGet(scores, row.input_id, <<>>)
         IN  LoadStageFrom(rows, i + 1,
                 DictPut(scores, row.input_id, DictPut(inner, row.partner_id, row.score)))

_load_stage(file) == LoadStageFrom(file.rows, 1, <<>>)

\* Variant: the ids in descending order.
RECURSIVE SortedIds_Descending(_)
SortedIds_Descending(S) ==
    IF S = {} THEN <<>>
    ELSE LET m == CHOOSE x \in S : \A y \in S : x >= y
         IN  <<m>> \o SortedIds_Descending(S \ {m})

\* sorted(S) for a set of input ids.
RECURSIVE SortedIds(_)
SortedIds(S) ==
    IF S = {} THEN <<>>
    ELSE LET m == CHOOSE x \in S : \A y \in S : x <= y
         IN  <<m>> \o SortedIds(S \ {m})

NoStages == [rank_lists |-> <<>>, weights |-> <<>>, per_stage_scores |-> <<>>]

\* Variant: a stage without scores for the input still brings an (empty)
\* ranked list and its weight.
RECURSIVE CollectStages_KeepAbsent(_, _, _, _, _)
CollectStages_KeepAbsent(input_id, stage_data, ws, k, acc) ==
    IF k > Len(StageNames) THEN acc
    ELSE LET scores == DictGet(stage_data[k], input_id, <<>>)
             ordered == SortedDesc(scores)
         IN  CollectStages_KeepAbsent(input_id, stage_data, ws, k + 1,
                    [rank_lists |-> Append(acc.rank_lists,
                                       [i \in 1..Len(ordered) |-> ordered[i][1]]),
                     weights |-> Append(acc.weights, ws[k]),
                     per_stage_scores |->
                         IF scores = <<>> THEN acc.per_stage_scores
                         ELSE DictPut(acc.per_stage_scores, StageNames[k], ordered)])

\* for name, weight in zip(stage_names, stage_weights): the stages that have
\* scores for input_id, their ranked lists and their configured weights.
RECURSIVE CollectStages(_, _, _, _, _)
CollectStages(input_id, stage_data, ws, k, acc) ==
    IF k > Len(StageNames) THEN acc
    ELSE LET scores == DictGet(stage_data[k], input_id, <<>>)
         IN  IF scores = <<>>
               THEN CollectStages(input_id, stage_data, ws, k + 1, acc)
               ELSE LET ordered == SortedDesc(scores)
                    IN  CollectStages(input_id, stage_data, ws, k + 1,
                            [rank_lists |-> Append(acc.rank_lists,
                                               [i \in 1..Len(ordered) |-> ordered[i][1]]),
                             weights |-> Append(acc.weights, ws[k]),
                             per_stage_scores |->
                                 DictPut(acc.per_stage_scores, StageNames[k], ordered)])

\* Variant: the surviving weights are passed on as configured.
NormalizedWeights_AsConfigured(ws) == ws

\* [weight / weight_total for weight in weights] if weight_total else weights
NormalizedWeights(ws) ==
    LET weight_total == RSum(ws)
    IN  IF weight_total[1] # 0
          THEN [i \in 1..Len(ws) |-> RDiv(ws[i], weight_total)]
          ELSE ws

\* Variant: the score of a partner missing from a stage is written as 0.
PartnerEntries_ZeroForAbsent(fused, per_stage_scores) ==
    [rank \in 1..Len(fused) |->
        [partner_id |-> fused[rank][1],
         scores |-> [k \in 1..Len(StageNames) |->
                        DictGet(DictGet(per_stage_scores, StageNames[k], <<>>),
                                fused[rank][1], RZero)],
         consensus_score |-> fused[rank][2],
         rank |-> rank]]

\* The partners list of one input, from the fused mapping.
PartnerEntries(fused, per_stage_scores) ==
    [rank \in 1..Len(fused) |->
        [partner_id |-> fused[rank][1],
         scores |-> [k \in 1..Len(StageNames) |->
                        DictGet(DictGet(per_stage_scores, StageNames[k], <<>>),
                                fused[rank][1], None)],
         consensus_score |-> fused[rank][2],
         rank |-> rank]]

\* for input_id in input_ids: ... ; an exception of the fusion ends the loop.
RECURSIVE AggregateInputs(_, _, _, _, _, _)
AggregateInputs(input_ids, i, stage_data, ws, c, acc) ==
    IF i > Len(input_ids) THEN acc
    ELSE LET input_id == input_ids[i]
             st == CollectStages(input_id, stage_data, ws, 1, NoStages)
         IN  IF st.rank_lists = <<>>
               THEN AggregateInputs(input_ids, i + 1, stage_data, ws, c, acc)
               ELSE LET normalized_weights == NormalizedWeights(st.weights)
                        call == [input_id |-> input_id,
                                 rank_lists |-> st.rank_lists,
                                 weights |-> normalized_weights]
                        fused == weighted_reciprocal_rank_fusion(
                                     st.rank_lists, normalized_weights, c)
                    IN  IF fused.status = "raised"
                          THEN [acc EXCEPT !.status = "raised",
                                           !.calls = Append(@, call)]
                          ELSE AggregateInputs(input_ids, i + 1, stage_data, ws, c,
                                 [status |-> "ok",
                                  per_input |-> Append(acc.per_input,
                                      [input_id |-> input_id,
                                       partners |-> PartnerEntries(fused.value,
                                                        st.per_stage_scores)]),
                                  global_entries |-> acc.global_entries \o
                                      [r \in 1..Len(fused.value) |->
                                          << <<input_id, fused.value[r][1]>>,
                                             fused.value[r][2] >>],
                                  calls |-> Append(acc.calls, call)])

AggRaised(made) ==
    [result |-> [status |-> "raised", inputs |-> <<>>, global_ranking |-> <<>>],
     calls |-> made]

run_aggregate(files, ws, c) ==
    IF \E k \in 1..Len(StageNames) : ~files[k].exists
      THEN AggRaised(<<>>)
    ELSE IF \E k \in 1..Len(StageNames) : \E i \in 1..Len(files[k].rows) :
               ~({"input_id", "partner_id", "score"} \subseteq DOMAIN files[k].rows[i])
      THEN AggRaised(<<>>)
      ELSE LET stage_data == [k \in 1..Len(StageNames) |-> _load_stage(files[k])]
               input_ids == SortedIds(UNION {DictKeys(stage_data[k]) :
                                                k \in 1..Len(StageNames)})
               acc == AggregateInputs(input_ids, 1, stage_data, ws, c,
                          [status |-> "ok", per_input |-> <<>>,
                           global_entries |-> <<>>, calls |-> <<>>])
               ranked == SortedDesc(acc.global_entries)
           IN  IF acc.status = "raised"
                 THEN AggRaised(acc.calls)
                 ELSE [result |->
                          [status |-> "written",
                           inputs |-> acc.per_input,
                           global_ranking |->
                               [index \in 1..Len(ranked) |->
                                   [input_id |-> ranked[index][1][1],
                                    partner_id |-> ranked[index][1][2],
                                    consensus_score |-> ranked[index][2],
                                    rank |-> index]]],
                       calls |-> acc.calls]

\* The rows of stage file k when the rows r are cut at cut[1] and cut[2].
FileRows(r, cut, k) ==
    IF k = 1 THEN SubSeq(r, 1, cut[1])
    ELSE IF k = 2 THEN SubSeq(r, cut[1] + 1, cut[2])
    ELSE SubSeq(r, cut[2] + 1, Len(r))

\* The three stage files: at most MaxRows rows in all, split over the
\* stages; a file without rows may also be missing.
AggInit ==
    /\ \E r \in SeqsUpTo(Rows, MaxRows) :
         \E cut \in {c \in (0..Len(r)) \X (0..Len(r)) : c[1] <= c[2]} :
            \E missing \in SUBSET {k \in 1..3 : FileRows(r, cut, k) = <<>>} :
               stage_files = [k \in 1..3 |->
                                 [exists |-> k \notin missing,
                                  rows |-> FileRows(r, cut, k)]]
    /\ stage_weights \in ConfiguredWeights
    /\ consensus_constant \in AggConstants
    /\ wrrf_calls = <<>>
    /\ agg_result = NotAggregated

RunAggregate ==
    /\ agg_result = NotAggregated
    /\ LET out == run_aggregate(stage_files, stage_weights, consensus_constant)
       IN  /\ agg_result' = out.result
           /\ wrrf_calls' = out.calls
    /\ UNCHANGED <<stage_files, stage_weights, consensus_constant>>
    /\ UNCHANGED notAggVars

AggNext ==
    \/ RunAggregate

AggSpecInit == AggInit /\ SchedIdle /\ FusionIdle /\ ScoreIdle /\ PipeIdle /\ RunnerIdle

SpecAgg == AggSpecInit /\ [][AggNext]_vars


(***************************************************************************)
(* Reading the stage files directly: which stages have rows for an input,  *)
(* the score a partner ends with, and its 1-based rank in the stage.       *)
(***************************************************************************)
RowsOf(k, id, partner) ==
    {i \in 1..Len(stage_files[k].rows) :
        /\ stage_files[k].rows[i].input_id = id
        /\ stage_files[k].rows[i].partner_id = partner}

PartnersIn(k, id) == {p \in PartnerIds : RowsOf(k, id, p) # {}}

PresentStages(id) == {k \in 1..Len(StageNames) : PartnersIn(k, id) # {}}

Min(S) == CHOOSE x \in S : \A y \in S : x <= y
Max(S) == CHOOSE x \in S : \A y \in S : x >= y

\* The last row of a pair decides its score, the first one its place.
ScoreIn(k, id, partner) == stage_files[k].rows[Max(RowsOf(k, id, partner))].score

Outranks(k, id, q, p) ==
    \/ RLess(ScoreIn(k, id, p), ScoreIn(k, id, q))
    \/ /\ ScoreIn(k, id, p) = ScoreIn(k, id, q)
       /\ Min(RowsOf(k, id, q)) < Min(RowsOf(k, id, p))

StageRank(k, id, partner) ==
    1 + Cardinality({q \in PartnersIn(k, id) \ {partner} : Outranks(k, id, q, partner)})

\* The configured weights of a set of stages, divided by their sum when the
\* sum is not zero.
RenormalizedOver(stages) ==
    LET total == RSum([k \in 1..Len(StageNames) |->
                          IF k \in stages THEN stage_weights[k] ELSE RZero])
    IN  [k \in 1..Len(StageNames) |->
            IF k \notin stages THEN RZero
            ELSE IF total[1] # 0 THEN RDiv(stage_weights[k], total)
            ELSE stage_weights[k]]

WeightSum(stages) ==
    RSum([k \in 1..Len(StageNames) |-> IF k \in stages THEN stage_weights[k] ELSE RZero])

\* The reciprocal-rank sum of a partner over the stages that hold it, with
\* the weights w.
ReciprocalSum(id, partner, w) ==
    RSum([k \in 1..Len(StageNames) |->
             IF partner \in PartnersIn(k, id) /\ RPos(w[k])
               THEN RDivInt(w[k], consensus_constant + StageRank(k, id, partner))
               ELSE RZero])

\* Picks the elements of a tuple at the given ascending positions.
Pick(t, positions) == [i \in 1..Len(positions) |-> t[positions[i]]]

CallsFor(id) == {n \in 1..Len(wrrf_calls) : wrrf_calls[n].input_id = id}

\* The stages an emitted entry has a score for.
EntryStages(e) == {k \in 1..Len(StageNames) : e.scores[k] # None}

\* What every call of the fusion made by run_aggregate satisfies apart from
\* the values of its weights: one ranked list and one weight per stage that
\* has rows for the input, and none for the other stages.
FusesPresentStages ==
    /\ \A n \in 1..Len(wrrf_calls) :
          LET cl == wrrf_calls[n]
              ps == SortedIds(PresentStages(cl.input_id))
          IN  /\ Len(cl.rank_lists) = Len(ps)
              /\ Len(cl.weights) = Len(ps)
              /\ \A i \in 1..Len(ps) :
                    /\ {cl.rank_lists[i][j] : j \in 1..Len(cl.rank_lists[i])}
                         = PartnersIn(ps[i], cl.input_id)
                    /\ \A j \in 1..Len(cl.rank_lists[i]) :
                          StageRank(ps[i], cl.input_id, cl.rank_lists[i][j]) = j
    /\ \A id \in InputIds :
          /\ Cardinality(CallsFor(id)) <= 1
          /\ PresentStages(id) = {} => CallsFor(id) = {}
          /\ (agg_result.status = "written" /\ PresentStages(id) # {}) => CallsFor(id) # {}

(***************************************************************************)
(* C5 as stated: for every input run_aggregate fuses exactly the stages    *)
(* that have scores for it, and the weights passed to WRRF are the         *)
(* configured weights of those stages divided by their sum, so they sum    *)
(* to 1.                                                                   *)
(***************************************************************************)
C5_AsStated ==
    agg_result.status = "written"
    =>
    /\ FusesPresentStages
    /\ \A n \in 1..Len(wrrf_calls) :
          LET cl == wrrf_calls[n]
              ps == SortedIds(PresentStages(cl.input_id))
              total == WeightSum(PresentStages(cl.input_id))
          IN  /\ total[1] # 0
              /\ cl.weights = [i \in 1..Len(ps) |-> RDiv(stage_weights[ps[i]], total)]
              /\ RSum(cl.weights) = <<1, 1>>

(***************************************************************************)
(* C5 amended: for every input run_aggregate fuses exactly the stages that *)
(* have scores for it; when the configured weights of those stages have a  *)
(* non-zero sum the weights passed to WRRF are those weights divided by    *)
(* their sum and sum to 1 (0.5/0.3/0.2 with dti and docking present gives  *)
(* 0.625/0.375); when the sum is zero they are passed as configured.       *)
(***************************************************************************)
C5_RenormalizedWeights ==
    /\ FusesPresentStages
    /\ \A n \in 1..Len(wrrf_calls) :
          LET cl == wrrf_calls[n]
              ps == SortedIds(PresentStages(cl.input_id))
              total == WeightSum(PresentStages(cl.input_id))
          IN  /\ total[1] # 0
                 => /\ cl.weights = [i \in 1..Len(ps) |-> RDiv(stage_weights[ps[i]], total)]
                    /\ RSum(cl.weights) = <<1, 1>>
              /\ total[1] = 0 => cl.weights = Pick(stage_weights, ps)
              /\ ( /\ stage_weights = << <<1, 2>>, <<3, 10>>, <<1, 5>> >>
                   /\ PresentStages(cl.input_id) = {1, 2} )
                 => cl.weights = << <<5, 8>>, <<3, 8>> >>

\* Weights 0.5/0.3/0.2 and an input that has dti and docking scores only.
C5_Witness ==
    /\ agg_result.status = "written"
    /\ stage_weights = << <<1, 2>>, <<3, 10>>, <<1, 5>> >>
    /\ \E n \in 1..Len(wrrf_calls) :
          /\ PresentStages(wrrf_calls[n].input_id) = {1, 2}
          /\ wrrf_calls[n].weights = << <<5, 8>>, <<3, 8>> >>

(***************************************************************************)
(* C6 as stated: the consensus_score of every emitted entry is computed    *)
(* with the stage weights renormalized over the stages present in that     *)
(* entry only (looked at for strictly positive configured weights).        *)
(***************************************************************************)
C6_AsStated ==
    (agg_result.status = "written" /\ \A k \in 1..Len(StageNames) : RPos(stage_weights[k]))
    => \A n \in 1..Len(agg_result.inputs) :
          LET inp == agg_result.inputs[n]
          IN  \A r \in 1..Len(inp.partners) :
                 LET e == inp.partners[r]
                 IN  e.consensus_score
                       = ReciprocalSum(inp.input_id, e.partner_id,
                                       RenormalizedOver(EntryStages(e)))

(***************************************************************************)
(* C6 amended: the consensus_score of every emitted entry is computed with *)
(* the stage weights renormalized over the stages that have scores for     *)
(* the entry's input: a stage without any score for the input brings no    *)
(* term and no weight, while a stage that ranks other partners of the      *)
(* input but not the entry's partner (a hole of the entry) brings no term  *)
(* although its weight stays in the renormalization.  The holes of an      *)
(* entry are exactly the stages without a score for its partner.           *)
(***************************************************************************)
C6_HolesNotZero ==
    agg_result.status = "written"
    => \A n \in 1..Len(agg_result.inputs) :
          LET inp == agg_result.inputs[n]
          IN  \A r \in 1..Len(inp.partners) :
                 LET e == inp.partners[r]
                 IN  /\ e.consensus_score
                          = ReciprocalSum(inp.input_id, e.partner_id,
                                          RenormalizedOver(PresentStages(inp.input_id)))
                     /\ EntryStages(e)
                          = {k \in 1..Len(StageNames) :
                                e.partner_id \in PartnersIn(k, inp.input_id)}
                     /\ \A k \in EntryStages(e) :
                           e.scores[k] = ScoreIn(k, inp.input_id, e.partner_id)

\* An entry with a hole in a stage that is present for its input, next to a
\* stage that is absent for the whole input.
C6_Witness ==
    /\ agg_result.status = "written"
    /\ \E n \in 1..Len(agg_result.inputs) :
          LET inp == agg_result.inputs[n]
          IN  \E r \in 1..Len(inp.partners) :
                 LET e == inp.partners[r]
                 IN  /\ PresentStages(inp.input_id) = {1, 2}
                     /\ EntryStages(e) = {1}
                     /\ RPos(stage_weights[2])
                     /\ RPos(e.consensus_score)


(***************************************************************************)
(* The output of run_aggregate read as a whole: the per-input entries and  *)
(* their places in the GlobalRanking.                                      *)
(***************************************************************************)
\* The positions <<n, r>> of the entries of all per-input lists.
EntryPositions ==
    UNION {{<<n, r>> : r \in 1..Len(agg_result.inputs[n].partners)} :
              n \in 1..Len(agg_result.inputs)}

\* The places of the GlobalRanking that hold the entry at <<n, r>>.
GlobalPlacesOf(pos) ==
    LET inp == agg_result.inputs[pos[1]]
        e == inp.partners[pos[2]]
    IN  {i \in 1..Len(agg_result.global_ranking) :
            /\ agg_result.global_ranking[i].input_id = inp.input_id
            /\ agg_result.global_ranking[i].partner_id = e.partner_id
            /\ agg_result.global_ranking[i].consensus_score = e.consensus_score}

\* The consensus rank, within its input, of the entry a place of the
\* GlobalRanking stands for.
ConsensusRankOf(g) ==
    LET n == CHOOSE m \in 1..Len(agg_result.inputs) :
                 agg_result.inputs[m].input_id = g.input_id
        r == CHOOSE q \in 1..Len(agg_result.inputs[n].partners) :
                 agg_result.inputs[n].partners[q].partner_id = g.partner_id
    IN  agg_result.inputs[n].partners[r].rank

\* C21: every input entry written by run_aggregate has a non-empty
\* partners list; an input for which fusion yields no ranked partner
\* produces no output row.
C21_NonEmptyPartners ==
    agg_result.status = "written"
    => \A n \in 1..Len(agg_result.inputs) : agg_result.inputs[n].partners # <<>>

\* C22: the GlobalRanking holds exactly one entry for every per-input
\* ConsensusEntry (same input_id, partner_id and consensus_score) and
\* nothing else, in non-increasing consensus_score; entries of equal score
\* come in input-processing order: ascending input_id and, within one
\* input, that input's consensus rank.
C22_GlobalRanking ==
    agg_result.status = "written"
    => LET g == agg_result.global_ranking
       IN  /\ Len(g) = Cardinality(EntryPositions)
           /\ \A pos \in EntryPositions : Cardinality(GlobalPlacesOf(pos)) = 1
           /\ \A i \in 1..Len(g) : \E pos \in EntryPositions : i \in GlobalPlacesOf(pos)
           /\ \A i, j \in 1..Len(g) :
                 i < j =>
                    /\ RLeq(g[j].consensus_score, g[i].consensus_score)
                    /\ g[i].consensus_score = g[j].consensus_score
                       => \/ g[i].input_id < g[j].input_id
                          \/ /\ g[i].input_id = g[j].input_id
                             /\ ConsensusRankOf(g[i]) < ConsensusRankOf(g[j])

\* Two inputs whose entries tie in consensus_score, and an input with two
\* ranked partners.
C22_Witness ==
    /\ agg_result.status = "written"
    /\ Len(agg_result.inputs) = 2
    /\ \E i, j \in 1..Len(agg_result.global_ranking) :
          /\ i < j
          /\ agg_result.global_ranking[i].consensus_score
               = agg_result.global_ranking[j].consensus_score
          /\ agg_result.global_ranking[i].input_id
               # agg_result.global_ranking[j].input_id
    /\ \E n \in 1..Len(agg_result.inputs) : Len(agg_result.inputs[n].partners) = 2

\* The mapping the fusion returned for an input, from the call recorded.
FusedFor(id) ==
    LET cl == wrrf_calls[CHOOSE n \in CallsFor(id) : TRUE]
    IN  weighted_reciprocal_rank_fusion(cl.rank_lists, cl.weights,
                                        consensus_constant).value

\* C23: run_aggregate emits one ConsensusEntry per partner of the fused
\* result, ranked from 1 in non-increasing fused score, and each entry
\* carries for each of the three stages the partner's raw score in that
\* stage's snapshot for the input when there is one, and the absent value
\* exactly when there is none: no raw score is altered and no absent score
\* is replaced by 0.
C23_ConsensusEntries ==
    agg_result.status = "written"
    => \A n \in 1..Len(agg_result.inputs) :
          LET inp == agg_result.inputs[n]
              fused == FusedFor(inp.input_id)
          IN  /\ Len(inp.partners) = Len(fused)
              /\ \A r \in 1..Len(inp.partners) :
                    LET e == inp.partners[r]
                    IN  /\ e.partner_id = fused[r][1]
                        /\ e.consensus_score = fused[r][2]
                        /\ e.rank = r
                        /\ r > 1 => RLeq(e.consensus_score,
                                         inp.partners[r - 1].consensus_score)
                        /\ \A k \in 1..Len(StageNames) :
                              e.scores[k] =
                                 IF e.partner_id \in PartnersIn(k, inp.input_id)
                                   THEN ScoreIn(k, inp.input_id, e.partner_id)
                                   ELSE None

\* An input with two entries; one of them has a dti score, no docking score
\* although docking ranks the other partner, and no mmgbsa score.
C23_Witness ==
    /\ agg_result.status = "written"
    /\ \E n \in 1..Len(agg_result.inputs) :
          LET inp == agg_result.inputs[n]
          IN  /\ Len(inp.partners) = 2
              /\ PresentStages(inp.input_id) = {1, 2}
              /\ \E r \in 1..2 :
                    /\ inp.partners[r].scores[1] # None
                    /\ inp.partners[r].scores[2] = None
                    /\ inp.partners[r].scores[3] = None

\* C29: a stage whose configured weight is <= 0 never contributes to a
\* consensus score: every consensus_score written is the sum of the terms
\* of the stages with a strictly positive configured weight, and the
\* renormalization never passes a positive weight for a stage whose
\* configured weight is not positive.
C29_NonPositiveWeightSilent ==
    agg_result.status = "written"
    => /\ \A n \in 1..Len(wrrf_calls) :
             LET cl == wrrf_calls[n]
                 ps == SortedIds(PresentStages(cl.input_id))
             IN  \A i \in 1..Len(cl.weights) :
                    ~RPos(stage_weights[ps[i]]) => ~RPos(cl.weights[i])
       /\ \A n \in 1..Len(agg_result.inputs) :
             LET inp == agg_result.inputs[n]
                 w == RenormalizedOver(PresentStages(inp.input_id))
             IN  \A r \in 1..Len(inp.partners) :
                    inp.partners[r].consensus_score
                      = ReciprocalSum(inp.input_id, inp.partners[r].partner_id,
                           [k \in 1..Len(StageNames) |->
                               IF RPos(stage_weights[k]) THEN w[k] ELSE RZero])

(***************************************************************************)
(* deterministic_score (duet_screen/utils.py).  A string is the sequence   *)
(* of its UTF-8 bytes.  blake2b itself is not computed: the digest is the  *)
(* value of one function of a family of mixing functions indexed by        *)
(* hash_seed, whose values cover the whole digest range.  A digest has     *)
(* DigestBits bits (64 in the source) and a float has MantissaBits         *)
(* significant bits (53 for a float64).                                    *)
(***************************************************************************)
DigestBits == 6
MantissaBits == 3

HashSeeds == {0, 1}

RECURSIVE Pow2(_)
Pow2(n) == IF n = 0 THEN 1 ELSE 2 * Pow2(n - 1)

\* s.encode("utf-8") for the strings of the model.
Utf8 ==
    "" :> <<>> @@
    "S" :> <<83>> @@
    "1" :> <<49>> @@
    "2" :> <<50>> @@
    "P" :> <<80>> @@
    "Q" :> <<81>> @@
    "R" :> <<82>> @@
    "MKV" :> <<77, 75, 86>> @@
    "CCO" :> <<67, 67, 79>> @@
    "MPL" :> <<77, 80, 76>> @@
    "CCN" :> <<67, 67, 78>> @@
    "O=C" :> <<79, 61, 67>> @@
    "NCC" :> <<78, 67, 67>> @@
    "dti" :> <<100, 116, 105>> @@
    "docking" :> <<100, 111, 99, 107, 105, 110, 103>> @@
    "mmgbsa" :> <<109, 109, 103, 98, 115, 97>>

\* "::".join(components).encode("utf-8")
RECURSIVE JoinFrom(_, _)
JoinFrom(comps, i) ==
    IF i > Len(comps) THEN <<>>
    ELSE IF i = Len(comps) THEN Utf8[comps[i]]
    ELSE Utf8[comps[i]] \o <<58, 58>> \o JoinFrom(comps, i + 1)

Join(comps) == JoinFrom(comps, 1)

\* hashlib.blake2b(data, digest_size=8).digest() read big-endian as an
\* unsigned integer below 2^DigestBits.
RECURSIVE Mix(_, _, _)
Mix(h, data, i) ==
    IF i > Len(data) THEN h
    ELSE Mix((h * 33 + data[i]) % Pow2(DigestBits), data, i + 1)

blake2b(data) == Mix(hash_seed, data, 1)

RECURSIVE BitLength(_)
BitLength(n) == IF n = 0 THEN 0 ELSE 1 + BitLength(n \div 2)

\* The int -> float conversion made by `int / float`: the nearest value with
\* MantissaBits significant bits, ties to the even mantissa.
IntToFloat(n) ==
    IF BitLength(n) <= MantissaBits THEN n
    ELSE LET unit == Pow2(BitLength(n) - MantissaBits)
             q == n \div unit
             r == n % unit
             up == (2 * r > unit) \/ (2 * r = unit /\ q % 2 = 1)
         IN  (IF up THEN q + 1 ELSE q) * unit

\* int.from_bytes(digest, byteorder="big") / float(2**64): the division of a
\* float by a power of two is exact.
deterministic_score(comps) ==
    Rat(IntToFloat(blake2b(Join(comps))), Pow2(DigestBits))

ScoreStrings == {"1", "P", "MKV", "dti"}

ScoreInit ==
    /\ hash_seed \in HashSeeds
    /\ components \in SeqsUpTo(ScoreStrings, 3)
    /\ score_result = NotCalled

CallScore ==
    /\ score_result = NotCalled
    /\ score_result' = Returned(deterministic_score(components))
    /\ UNCHANGED <<hash_seed, components>>
    /\ UNCHANGED notScoreVars

ScoreNext ==
    \/ CallScore

ScoreSpecInit == ScoreInit /\ SchedIdle /\ FusionIdle /\ AggIdle /\ PipeIdle /\ RunnerIdle

SpecScore == ScoreSpecInit /\ [][ScoreNext]_vars

\* C20: every score produced by deterministic_score lies in [0, 1): it is
\* >= 0 and strictly below 1, whatever the components.
C20_ScoreInUnitInterval ==
    score_result.status = "returned" =>
        /\ RLeq(RZero, score_result.value)
        /\ RLess(score_result.value, <<1, 1>>)


(***************************************************************************)
(* The stage commands (hypervs1000/cli.py main): dti, dock, mmgbsa and     *)
(* aggregate, each run as one process on the work directory.  Input ids    *)
(* are numbered in their sorted() order and stand for strings; a row of a  *)
(* stage file is a record with the keys of the JSON object.                *)
(***************************************************************************)
\* str(input_id)
str(id) == IF id = 1 THEN "1" ELSE "2"

\* config.library: three ligands and one protein.
Library ==
    [proteins |-> << [id |-> "S", sequence |-> "MPL"] >>,
     ligands |-> << [id |-> "P", smiles |-> "CCN"],
                    [id |-> "Q", smiles |-> "O=C"],
                    [id |-> "R", smiles |-> "NCC"] >>]

\* <<dti_top_k, docking_top_k, mmgbsa_top_k>> of a configuration file.
TopKChoices == { <<2, 2, 2>>, <<0, 2, 0>>, <<2, 0, 2>> }

\* <<devices of the file, --devices, chunk_size>> tried together.
DeviceChoices ==
    { << <<>>, <<>>, 0 >>, << <<0, 1>>, <<>>, 0 >>,
      << <<>>, <<1>>, 2 >>, << <<0, 1>>, <<>>, 2 >> }

Max2(a, b) == IF a >= b THEN a ELSE b
Min2(a, b) == IF a <= b THEN a ELSE b

\* Variant: the slice keeps every element.
Take_All(seq, k) == seq

\* seq[:k] for k >= 0
Take(seq, k) == SubSeq(seq, 1, Min2(k, Len(seq)))

Ok(rows) == [status |-> "ok", error |-> "", rows |-> rows]
Fails(error, rows) == [status |-> "raised", error |-> error, rows |-> rows]

\* _build_config: the devices of the configuration file, (0,) when there are
\* none; the top_k values and chunk_size are taken as they are.
_build_config(raw) ==
    [devices |-> IF raw.devices = <<>> THEN <<0>> ELSE raw.devices,
     chunk_size |-> raw.chunk_size,
     dti_top_k |-> raw.dti_top_k,
     docking_top_k |-> raw.docking_top_k,
     mmgbsa_top_k |-> raw.mmgbsa_top_k]

\* PipelineSettings.with_devices(devices), applied by main when --devices
\* names at least one device.
with_devices(settings, devs) ==
    IF devs = <<>> THEN settings ELSE [settings EXCEPT !.devices = devs]

\* load_input_records: ValueError on a row without id, type or value, on
\* an unknown type, and when there is no row.
load_input_records(rows) ==
    IF \E i \in 1..Len(rows) :
          \/ rows[i].value = ""
          \/ rows[i].type \notin {"protein", "ligand"}
      THEN Fails("ValueError", <<>>)
    ELSE IF rows = <<>> THEN Fails("ValueError", <<>>)
    ELSE Ok(rows)

\* opposite_partners(config, input_type) as PartnerRecords.
opposite_partners(input_type) ==
    IF input_type = "protein"
      THEN [i \in 1..Len(Library.ligands) |->
              [id |-> Library.ligands[i].id, type |-> "ligand",
               value |-> Library.ligands[i].smiles]]
      ELSE [i \in 1..Len(Library.proteins) |->
              [id |-> Library.proteins[i].id, type |-> "protein",
               value |-> Library.proteins[i].sequence]]

\* Variant: dti scores on the identifiers, as docking and mmgbsa do.
_rank_partners_ById(record, partners, top_k) ==
    LET scored == [i \in 1..Len(partners) |->
                      <<partners[i],
                        deterministic_score(<<str(record.id), partners[i].id, "dti">>)>>]
        limited == Take(SortedDesc(scored), top_k)
    IN  [rank \in 1..Len(limited) |->
            [input_id |-> record.id,
             input_type |-> record.type,
             partner_id |-> limited[rank][1].id,
             partner_type |-> limited[rank][1].type,
             stage |-> "dti",
             score |-> limited[rank][2],
             rank |-> rank]]

\* Variant: ranks are numbered from 0.
_rank_partners_ZeroBased(record, partners, top_k) ==
    LET scored == [i \in 1..Len(partners) |->
                      <<partners[i],
                        deterministic_score(<<record.value, partners[i].value, "dti">>)>>]
        limited == Take(SortedDesc(scored), top_k)
    IN  [rank \in 1..Len(limited) |->
            [input_id |-> record.id,
             input_type |-> record.type,
             partner_id |-> limited[rank][1].id,
             partner_type |-> limited[rank][1].type,
             stage |-> "dti",
             score |-> limited[rank][2],
             rank |-> rank - 1]]

\* _rank_partners: score every partner on (record.value, partner.value,
\* "dti"), sort descending (stable), keep the first top_k, rank from 1.
_rank_partners(record, partners, top_k) ==
    LET scored == [i \in 1..Len(partners) |->
                      <<partners[i],
                        deterministic_score(<<record.value, partners[i].value, "dti">>)>>]
        limited == Take(SortedDesc(scored), top_k)
    IN  [rank \in 1..Len(limited) |->
            [input_id |-> record.id,
             input_type |-> record.type,
             partner_id |-> limited[rank][1].id,
             partner_type |-> limited[rank][1].type,
             stage |-> "dti",
             score |-> limited[rank][2],
             rank |-> rank]]

\* _score_chunk: top_k = max(1, config.pipeline.dti_top_k)
RECURSIVE ScoreChunkFrom(_, _, _)
ScoreChunkFrom(chunk, i, top_k) ==
    IF i > Len(chunk) THEN <<>>
    ELSE _rank_partners(chunk[i], opposite_partners(chunk[i].type), top_k)
            \o ScoreChunkFrom(chunk, i + 1, top_k)

_score_chunk(settings, chunk) ==
    ScoreChunkFrom(chunk, 1, Max2(1, settings.dti_top_k))

\* Variant: a last block shorter than size is not yielded.
RECURSIVE chunked_DropPartial(_, _)
chunked_DropPartial(items, size) ==
    IF Len(items) < size THEN <<>>
    ELSE <<Take(items, size)>> \o
         chunked_DropPartial(SubSeq(items, size + 1, Len(items)), size)

\* chunked(iterable, size): blocks of size elements, the last one shorter.
RECURSIVE chunked(_, _)
chunked(items, size) ==
    IF items = <<>> THEN <<>>
    ELSE <<Take(items, size)>> \o
         chunked(SubSeq(items, Min2(size, Len(items)) + 1, Len(items)), size)

\* An environment fault of the worker: its call number `at` fails with
\* `error`; at = 0 is no fault.
NoFault == [at |-> 0, error |-> ""]
WorkerErrors == {"RetryableError", "RuntimeError"}

\* Variant: a failed chunk is dropped and the dispatch goes on, so the rows
\* of a run depend on which worker calls failed.
RECURSIVE DtiDispatchFrom_DropFailed(_, _, _, _, _, _)
DtiDispatchFrom_DropFailed(tasks, devs, settings, fault, i, done) ==
    IF i > Len(tasks) THEN Ok(done)
    ELSE IF fault.at = i
      THEN DtiDispatchFrom_DropFailed(tasks, devs, settings, fault, i + 1, done)
    ELSE DtiDispatchFrom_DropFailed(tasks, devs, settings, fault, i + 1,
             Append(done, <<i, DeviceAt(devs, i - 1), _score_chunk(settings, tasks[i])>>))

\* scheduler.dispatch(tasks, worker) of run_dti: max_retries = 0, so the
\* first failure of a worker call, retryable or not, leaves dispatch.
RECURSIVE DtiDispatchFrom(_, _, _, _, _, _)
DtiDispatchFrom(tasks, devs, settings, fault, i, done) ==
    IF i > Len(tasks) THEN Ok(done)
    ELSE IF fault.at = i THEN Fails(fault.error, done)
    ELSE DtiDispatchFrom(tasks, devs, settings, fault, i + 1,
             Append(done, <<i, DeviceAt(devs, i - 1), _score_chunk(settings, tasks[i])>>))

\* for _, device, payload in results: rows.extend(payload)
RECURSIVE ExtendRows(_, _)
ExtendRows(done, i) ==
    IF i > Len(done) THEN <<>> ELSE done[i][3] \o ExtendRows(done, i + 1)

run_dti(csv_rows, settings, devs, fault) ==
    LET loaded == load_input_records(csv_rows)
        target_devices == IF devs # <<>> THEN devs ELSE settings.devices
    IN  IF loaded.status = "raised"
          THEN [status |-> "raised", error |-> loaded.error, rows |-> <<>>, devices |-> <<>>]
        ELSE IF target_devices = <<>>
          THEN [status |-> "raised", error |-> "ValueError", rows |-> <<>>, devices |-> <<>>]
        ELSE LET chunk_size == Max2(1, settings.chunk_size)
                 tasks == chunked(loaded.rows, chunk_size)
                 out == DtiDispatchFrom(tasks, target_devices, settings, fault, 1, <<>>)
             IN  [status |-> out.status, error |-> out.error,
                  rows |-> ExtendRows(out.rows, 1),
                  devices |-> [i \in 1..Len(out.rows) |-> out.rows[i][2]]]

\* grouped[str(row["input_id"])].append(dict(row)): KeyError on a row
\* without input_id.
RECURSIVE GroupRows(_, _, _)
GroupRows(rows, i, grouped) ==
    IF i > Len(rows) THEN Ok(grouped)
    ELSE IF "input_id" \notin DOMAIN rows[i] THEN Fails("KeyError", <<>>)
    ELSE GroupRows(rows, i + 1,
             DictPut(grouped, rows[i].input_id,
                     Append(DictGet(grouped, rows[i].input_id, <<>>), rows[i])))

\* Variant: the candidates of a group are the whole ligand library, not the
\* survivors of the stage before.
RescoreGroup_FullLibrary(candidates, top_k, stage) ==
    LET pool == [i \in 1..Len(Library.ligands) |->
                    [input_id |-> candidates[1].input_id,
                     partner_id |-> Library.ligands[i].id,
                     partner_type |-> "ligand"]]
        scored == [i \in 1..Len(pool) |->
                      <<pool[i],
                        deterministic_score(<<str(pool[i].input_id),
                                              pool[i].partner_id, stage>>)>>]
        limited == Take(SortedDesc(scored), top_k)
    IN  Ok([rank \in 1..Len(limited) |->
               [input_id |-> limited[rank][1].input_id,
                partner_id |-> limited[rank][1].partner_id,
                partner_type |-> limited[rank][1].partner_type,
                stage |-> stage,
                score |-> limited[rank][2],
                rank |-> rank]])

\* One group of run_docking / run_mmgbsa: score every candidate on
\* (str(input_id), str(partner_id), stage), sort descending (stable), emit
\* the first top_k with ranks from 1.  KeyError on a candidate without
\* partner_id and on an emitted candidate without partner_type.
RescoreGroup(candidates, top_k, stage) ==
    IF \E i \in 1..Len(candidates) : "partner_id" \notin DOMAIN candidates[i]
      THEN Fails("KeyError", <<>>)
    ELSE LET scored == [i \in 1..Len(candidates) |->
                           <<candidates[i],
                             deterministic_score(<<str(candidates[i].input_id),
                                                   candidates[i].partner_id, stage>>)>>]
             limited == Take(SortedDesc(scored), top_k)
             bad == {r \in 1..Len(limited) : "partner_type" \notin DOMAIN limited[r][1]}
             emitted == IF bad = {} THEN Len(limited)
                        ELSE (CHOOSE r \in bad : \A q \in bad : r <= q) - 1
             rows == [rank \in 1..emitted |->
                         [input_id |-> limited[rank][1].input_id,
                          partner_id |-> limited[rank][1].partner_id,
                          partner_type |-> limited[rank][1].partner_type,
                          stage |-> stage,
                          score |-> limited[rank][2],
                          rank |-> rank]]
         IN  IF bad = {} THEN Ok(rows) ELSE Fails("KeyError", rows)

\* for input_id, candidates in grouped.items(): ...
RECURSIVE RescoreGroups(_, _, _, _, _)
RescoreGroups(grouped, g, top_k, stage, rows) ==
    IF g > Len(grouped) THEN Ok(rows)
    ELSE LET out == RescoreGroup(grouped[g][2], top_k, stage)
         IN  IF out.status = "raised" THEN Fails(out.error, rows \o out.rows)
             ELSE RescoreGroups(grouped, g + 1, top_k, stage, rows \o out.rows)

\* Variant: a missing upstream file is read as an empty one.
RunRescoring_EmptyFallback(source, top_k, stage) ==
    LET grouped == GroupRows(source.rows, 1, <<>>)
    IN  IF grouped.status = "raised" THEN grouped
        ELSE RescoreGroups(grouped.rows, 1, Max2(1, top_k), stage, <<>>)

\* The body shared by run_docking and run_mmgbsa.
RunRescoring(source, top_k, stage) ==
    IF ~source.exists THEN Fails("FileNotFoundError", <<>>)
    ELSE LET grouped == GroupRows(source.rows, 1, <<>>)
         IN  IF grouped.status = "raised" THEN grouped
             ELSE RescoreGroups(grouped.rows, 1, Max2(1, top_k), stage, <<>>)

run_docking(source, settings) == RunRescoring(source, settings.docking_top_k, "docking")

run_mmgbsa(source, settings) == RunRescoring(source, settings.mmgbsa_top_k, "mmgbsa")

\* write_jsonl(path, rows): the file is opened with mode "w".
write_jsonl(file, rows) == [exists |-> TRUE, rows |-> rows]

\* Variant: the rows are written as they are computed.
Persist_Streaming(file, out) == write_jsonl(file, out.rows)

\* A stage writes its file after its last row is computed, and not at all
\* when it raised.
Persist(file, out) ==
    IF out.status = "ok" THEN write_jsonl(file, out.rows) ELSE file

\* What an earlier run may have left in the work directory: rows written by
\* another version (no partner_type, no rank) and a row without input_id.
StaleRow == [input_id |-> 2, partner_id |-> "Q", score |-> Rat(1, 2)]
BrokenRow == [partner_id |-> "Q"]
FileOf(rows) == [exists |-> TRUE, rows |-> rows]

Workdirs ==
    { [stages |-> <<NoFile, NoFile, NoFile>>, aggregate |-> NoAggregateFile],
      [stages |-> <<NoFile, FileOf(<<StaleRow>>), FileOf(<<BrokenRow>>)>>,
       aggregate |-> [exists |-> TRUE, inputs |-> <<>>, global_ranking |-> <<>>]],
      [stages |-> <<FileOf(<<StaleRow>>), NoFile, FileOf(<<StaleRow>>)>>,
       aggregate |-> NoAggregateFile] }

\* The sequences CSV: two inputs of either kind in either order, one input,
\* a row with an empty value, no row.
InputRowChoices ==
    { << [id |-> 1, type |-> "protein", value |-> "MKV"],
         [id |-> 2, type |-> "ligand", value |-> "CCO"] >>,
      << [id |-> 2, type |-> "protein", value |-> "MKV"],
         [id |-> 1, type |-> "protein", value |-> "MKV"] >>,
      << [id |-> 1, type |-> "protein", value |-> "MKV"] >>,
      << [id |-> 1, type |-> "protein", value |-> "MKV"],
         [id |-> 2, type |-> "protein", value |-> ""] >>,
      << >> }

PipelineRaw(d, k) ==
    [devices |-> d[1], chunk_size |-> d[3],
     dti_top_k |-> k[1], docking_top_k |-> k[2], mmgbsa_top_k |-> k[3]]

PipeWeights == {StageWeightsNormalized(<<5, 3, 2>>)}

PipeInit ==
    /\ hash_seed \in HashSeeds
    /\ components = <<>>
    /\ score_result = NotCalled
    /\ input_rows \in InputRowChoices
    /\ \E d \in DeviceChoices, k \in TopKChoices :
          /\ pipeline_raw = PipelineRaw(d, k)
          /\ cli_devices = d[2]
    /\ \E w \in Workdirs :
          /\ stage_files = w.stages
          /\ aggregate_file = w.aggregate
    /\ stage_weights \in PipeWeights
    /\ consensus_constant \in AggConstants
    /\ wrrf_calls = <<>>
    /\ agg_result = NotAggregated
    /\ last_run = NotRun
    /\ chain = 0
    /\ first_snapshot = NoAggregateFile
    /\ reran = FALSE

\* main: config = load_config(args.config), then with_devices when --devices
\* names a device.
LoadedSettings == with_devices(_build_config(pipeline_raw), cli_devices)

Ran(command, out, devs) ==
    [command |-> command, status |-> out.status, error |-> out.error, devices |-> devs]

\* hypervs1000 dti
DtiEffect ==
    \E fault \in {NoFault} \cup
                 [at : 1..Len(input_rows), error : WorkerErrors] :
        \E out \in {run_dti(input_rows, LoadedSettings, cli_devices, fault)} :
            /\ stage_files' = [stage_files EXCEPT ![1] = Persist(@, out)]
            /\ last_run' = Ran("dti", out, out.devices)
            /\ chain' = IF out.status = "ok" THEN 1 ELSE 0
            /\ UNCHANGED <<aggregate_file, first_snapshot, reran, wrrf_calls, agg_result>>

\* hypervs1000 dock
DockEffect ==
    \E out \in {run_docking(stage_files[1], LoadedSettings)} :
        /\ stage_files' = [stage_files EXCEPT ![2] = Persist(@, out)]
        /\ last_run' = Ran("dock", out, <<>>)
        /\ chain' = IF out.status = "ok" /\ chain = 1 THEN 2 ELSE 0
        /\ UNCHANGED <<aggregate_file, first_snapshot, reran, wrrf_calls, agg_result>>

\* hypervs1000 mmgbsa
MmgbsaEffect ==
    \E out \in {run_mmgbsa(stage_files[2], LoadedSettings)} :
        /\ stage_files' = [stage_files EXCEPT ![3] = Persist(@, out)]
        /\ last_run' = Ran("mmgbsa", out, <<>>)
        /\ chain' = IF out.status = "ok" /\ chain = 2 THEN 3 ELSE 0
        /\ UNCHANGED <<aggregate_file, first_snapshot, reran, wrrf_calls, agg_result>>

\* The exception run_aggregate leaves with.
AggregateError(files) ==
    IF \E k \in 1..Len(StageNames) : ~files[k].exists THEN "FileNotFoundError"
    ELSE IF \E k \in 1..Len(StageNames) : \E i \in 1..Len(files[k].rows) :
               ~({"input_id", "partner_id", "score"} \subseteq DOMAIN files[k].rows[i])
      THEN "KeyError"
    ELSE "ValueError"

\* hypervs1000 aggregate
AggregateEffect ==
    \E out \in {run_aggregate(stage_files, stage_weights, consensus_constant)} :
    LET written == out.result.status = "written"
        snapshot == [exists |-> TRUE, inputs |-> out.result.inputs,
                     global_ranking |-> out.result.global_ranking]
        complete == written /\ chain = 3
    IN  /\ agg_result' = out.result
        /\ wrrf_calls' = out.calls
        /\ aggregate_file' = IF written THEN snapshot ELSE aggregate_file
        /\ last_run' = [command |-> "aggregate",
                        status |-> IF written THEN "ok" ELSE "raised",
                        error |-> IF written THEN "" ELSE AggregateError(stage_files),
                        devices |-> <<>>]
        /\ chain' = IF complete THEN 4 ELSE 0
        /\ first_snapshot' = IF complete /\ ~first_snapshot.exists
                               THEN snapshot ELSE first_snapshot
        /\ reran' = (reran \/ (complete /\ first_snapshot.exists))
        /\ UNCHANGED stage_files

PipeFrame == UNCHANGED <<input_rows, pipeline_raw, cli_devices, stage_weights,
                         consensus_constant>>

CmdDti == DtiEffect /\ PipeFrame /\ UNCHANGED notPipeVars
CmdDock == DockEffect /\ PipeFrame /\ UNCHANGED notPipeVars
CmdMmgbsa == MmgbsaEffect /\ PipeFrame /\ UNCHANGED notPipeVars
CmdAggregate == AggregateEffect /\ PipeFrame /\ UNCHANGED notPipeVars

PipeNext ==
    \/ CmdDti
    \/ CmdDock
    \/ CmdMmgbsa
    \/ CmdAggregate

PipeSpecInit == PipeInit /\ SchedIdle /\ FusionIdle /\ RunnerIdle

SpecPipe == PipeSpecInit /\ [][PipeNext]_vars


(***************************************************************************)
(* Reading the work directory after a command: the rows a stage wrote for  *)
(* one input and the ranks they carry.                                     *)
(***************************************************************************)
StageFileOf == [c \in {"dti", "dock", "mmgbsa"} |->
                   IF c = "dti" THEN 1 ELSE IF c = "dock" THEN 2 ELSE 3]

\* The command that just ended wrote its output.
Wrote(command) == last_run.command = command /\ last_run.status = "ok"

\* The positions of the rows of one input in a stage file.
GroupOf(rows, id) == {i \in 1..Len(rows) : rows[i].input_id = id}

InputsOf(rows) == {rows[i].input_id : i \in 1..Len(rows)}

\* The ranks of the entries at the positions `group` are exactly 1..N.
Contiguous(entries, group) ==
    \A r \in 1..Cardinality(group) :
        Cardinality({i \in group : entries[i].rank = r}) = 1

\* C11: rank contiguity.  In the output of each stage the ranks of every
\* (input_id, stage) group are exactly 1..N, N the size of the group, with
\* no gap and no duplicate; so are the ranks of every per-input consensus
\* list and of the GlobalRanking written by run_aggregate.
C11_RankContiguity ==
    /\ \A c \in DOMAIN StageFileOf :
          Wrote(c) =>
              LET rows == stage_files[StageFileOf[c]].rows
              IN  \A id \in InputsOf(rows) : Contiguous(rows, GroupOf(rows, id))
    /\ Wrote("aggregate") =>
          /\ \A k \in 1..Len(aggregate_file.inputs) :
                Contiguous(aggregate_file.inputs[k].partners,
                           DOMAIN aggregate_file.inputs[k].partners)
          /\ Contiguous(aggregate_file.global_ranking,
                        DOMAIN aggregate_file.global_ranking)

\* The four commands ran in a row over two inputs: the dti file holds a
\* group of two entries and the GlobalRanking at least three.
C11_Witness ==
    /\ Wrote("aggregate")
    /\ chain = 4
    /\ \E id \in InputsOf(stage_files[1].rows) :
          Cardinality(GroupOf(stage_files[1].rows, id)) = 2
    /\ Cardinality(InputsOf(stage_files[1].rows)) = 2
    /\ Len(aggregate_file.inputs) = 2
    /\ Len(aggregate_file.global_ranking) >= 3


(***************************************************************************)
(* The candidates a stage had for one input, in their original order, with *)
(* the score the stage gives each, and the entries it emitted for them.    *)
(***************************************************************************)
StageTag == [c \in DOMAIN StageFileOf |->
                IF c = "dti" THEN "dti" ELSE IF c = "dock" THEN "docking" ELSE "mmgbsa"]

\* The configured top_k of a stage.
TopKOf(c) ==
    IF c = "dti" THEN pipeline_raw.dti_top_k
    ELSE IF c = "dock" THEN pipeline_raw.docking_top_k
    ELSE pipeline_raw.mmgbsa_top_k

InputRecord(id) == input_rows[CHOOSE i \in 1..Len(input_rows) : input_rows[i].id = id]

\* The rows of one input in a stage file, in file order.
RowsFor(rows, id) == SelectSeq(rows, LAMBDA r : r.input_id = id)

\* The inputs a stage ranks: the input records for dti, the inputs of the
\* upstream file for dock and mmgbsa.
RankedInputs(c) ==
    IF c = "dti" THEN {input_rows[i].id : i \in 1..Len(input_rows)}
    ELSE InputsOf(stage_files[StageFileOf[c] - 1].rows)

CandidatesFor(c, id) ==
    IF c = "dti"
      THEN LET record == InputRecord(id)
               partners == opposite_partners(record.type)
           IN  [i \in 1..Len(partners) |->
                   [partner_id |-> partners[i].id,
                    score |-> deterministic_score(
                                  <<record.value, partners[i].value, "dti">>)]]
      ELSE LET source == RowsFor(stage_files[StageFileOf[c] - 1].rows, id)
           IN  [i \in 1..Len(source) |->
                   [partner_id |-> source[i].partner_id,
                    score |-> deterministic_score(
                                  <<str(id), source[i].partner_id, StageTag[c]>>)]]

EmittedFor(c, id) == RowsFor(stage_files[StageFileOf[c]].rows, id)

\* The original position of the candidate an emitted entry is about.
PositionOf(cand, entry) ==
    CHOOSE i \in 1..Len(cand) : cand[i].partner_id = entry.partner_id

\* `emitted` is the first min(top_k, n) candidates of the stable descending
\* sort of the n candidates `cand`.
IsTopK(cand, emitted, top_k) ==
    LET kept == {PositionOf(cand, emitted[r]) : r \in 1..Len(emitted)}
    IN  /\ Len(emitted) = Min2(top_k, Len(cand))
        /\ \A r \in 1..Len(emitted) :
              /\ \E i \in 1..Len(cand) : cand[i].partner_id = emitted[r].partner_id
              /\ emitted[r].score = cand[PositionOf(cand, emitted[r])].score
        /\ \A r \in 1..Len(emitted) - 1 :
              /\ RLeq(emitted[r + 1].score, emitted[r].score)
              /\ emitted[r + 1].score = emitted[r].score =>
                    PositionOf(cand, emitted[r]) < PositionOf(cand, emitted[r + 1])
        /\ \A i \in (1..Len(cand)) \ kept : \A r \in 1..Len(emitted) :
              /\ RLeq(cand[i].score, emitted[r].score)
              /\ cand[i].score = emitted[r].score => PositionOf(cand, emitted[r]) < i
        /\ Len(cand) <= top_k => kept = 1..Len(cand)

\* C12: for every stage and every input, the emitted entries are exactly the
\* first min(top_k, n) of the input's n candidates sorted by descending
\* score, equal scores keeping the original candidate order: scores are
\* non-increasing in rank, no dropped candidate scores strictly higher than
\* a kept one, and all candidates are kept when n <= top_k.  (top_k >= 1 as
\* the contract of a stage assumes.)
C12_TopKStable ==
    \A c \in DOMAIN StageFileOf :
        (Wrote(c) /\ TopKOf(c) >= 1) =>
            \A id \in RankedInputs(c) :
                IsTopK(CandidatesFor(c, id), EmittedFor(c, id), TopKOf(c))

\* dti cut three candidates to two, and a dropped candidate has the score of
\* a kept one; the other input kept its only candidate.
C12_Witness ==
    /\ Wrote("dti")
    /\ TopKOf("dti") = 2
    /\ \E id \in RankedInputs("dti") :
          LET cand == CandidatesFor("dti", id)
              emitted == EmittedFor("dti", id)
          IN  /\ Len(cand) = 3
              /\ Len(emitted) = 2
              /\ \E i \in 1..3 :
                    /\ \A r \in 1..2 : emitted[r].partner_id # cand[i].partner_id
                    /\ cand[i].score = emitted[2].score
    /\ \E id \in RankedInputs("dti") :
          /\ Len(CandidatesFor("dti", id)) = 1
          /\ Len(EmittedFor("dti", id)) = 1

\* The value string of a library partner.
PartnerValue(partner_id) ==
    LET all == [i \in 1..Len(Library.ligands) |->
                   <<Library.ligands[i].id, Library.ligands[i].smiles>>]
               \o [i \in 1..Len(Library.proteins) |->
                   <<Library.proteins[i].id, Library.proteins[i].sequence>>]
    IN  DictGet(all, partner_id, "")

KnownInputs == {input_rows[i].id : i \in 1..Len(input_rows)}
KnownPartners == {Library.ligands[i].id : i \in 1..Len(Library.ligands)}
                 \cup {Library.proteins[i].id : i \in 1..Len(Library.proteins)}

\* Scorer(input.value, candidate.value, stage_tag) for a row of stage c.
ScoreOnValues(c, row) ==
    deterministic_score(<<InputRecord(row.input_id).value,
                          PartnerValue(row.partner_id), StageTag[c]>>)

\* Scorer(str(input_id), str(partner_id), stage_tag) for a row of stage c.
ScoreOnIds(c, row) ==
    deterministic_score(<<str(row.input_id), row.partner_id, StageTag[c]>>)

C14_TopKBelowOneFatal ==
    (/\ \E c \in DOMAIN StageFileOf : TopKOf(c) < 1
     /\ pipeline_raw.devices # <<>>) =>
        \A c \in DOMAIN StageFileOf : ~Wrote(c)

\* C15: an empty device pool is a fatal configuration error detected before
\* any stage executes: a run configured with no device identifiers fails
\* instead of dispatching work on some substituted device.  (Read on runs
\* whose top_k values are all >= 1, so that nothing else is wrong with them.)
C15_EmptyDevicePoolFatal ==
    (/\ pipeline_raw.devices = <<>>
     /\ cli_devices = <<>>
     /\ \A c \in DOMAIN StageFileOf : TopKOf(c) >= 1) =>
        /\ ~Wrote("dti")
        /\ last_run.devices = <<>>

\* The step just taken ran `command`.
Runs(command) == last_run'.command = command

\* The step changed no file of the work directory.
NoOutput == stage_files' = stage_files /\ aggregate_file' = aggregate_file

MissingFileFailure ==
    /\ last_run'.status = "raised"
    /\ last_run'.error = "FileNotFoundError"
    /\ NoOutput

\* C16: missing prerequisites are fatal and never replaced by a fallback.
\* run_docking fails when the dti output is absent, run_mmgbsa when the
\* docking output is absent, run_aggregate when any one of the three stage
\* outputs is absent, whatever the others contain; the failure is the one of
\* the missing file, raised before any record is read, and the failing step
\* writes no output.
C16_MissingPrerequisiteFatal ==
    [][ /\ (Runs("dock") /\ ~stage_files[1].exists) => MissingFileFailure
        /\ (Runs("mmgbsa") /\ ~stage_files[2].exists) => MissingFileFailure
        /\ (Runs("aggregate") /\ \E k \in 1..3 : ~stage_files[k].exists)
              => MissingFileFailure ]_vars

\* run_aggregate failed on the one missing stage file while another stage
\* file holds a row it could not have read.
C16_Witness ==
    /\ last_run.command = "aggregate"
    /\ last_run.error = "FileNotFoundError"
    /\ Cardinality({k \in 1..3 : ~stage_files[k].exists}) = 1
    /\ \E k \in 1..3 : stage_files[k].rows = <<BrokenRow>>
    /\ ~aggregate_file.exists \/ aggregate_file.inputs = <<>>

\* C17: no partial-success output.  Whenever a stage or the aggregation ends
\* with a fatal error (exhausted retry, non-retryable worker failure, missing
\* file, record without a required field, invalid fusion parameter) it has
\* written nothing: every file is what it was before the invocation.  A file
\* changes only in a step of its own command that ran to its end.
C17_NoPartialOutput ==
    [][ /\ last_run'.status = "raised" => NoOutput
        /\ \A c \in DOMAIN StageFileOf :
              stage_files'[StageFileOf[c]] # stage_files[StageFileOf[c]]
                  => (Runs(c) /\ last_run'.status = "ok")
        /\ aggregate_file' # aggregate_file
              => (Runs("aggregate") /\ last_run'.status = "ok") ]_vars

\* dti scored its first chunk and the worker failed retryably on the second,
\* with max_retries = 0; the dti file is still the one of an earlier run.
C17_Witness ==
    /\ last_run.command = "dti"
    /\ last_run.status = "raised"
    /\ last_run.error = "RetryableError"
    /\ Len(last_run.devices) = 1
    /\ stage_files[1].exists
    /\ Len(input_rows) = 2

\* C18: idempotence.  Running dti, dock, mmgbsa, aggregate in a row a second
\* time on the same input records, library and configuration leaves the
\* same per-input consensus lists and the same GlobalRanking (entries,
\* scores, ranks and order) as the first such run did, whatever the work
\* directory held before and whatever ran or failed in between.
C18_Idempotent ==
    (chain = 4 /\ first_snapshot.exists) =>
        /\ aggregate_file.inputs = first_snapshot.inputs
        /\ aggregate_file.global_ranking = first_snapshot.global_ranking

\* The sequence completed a second time, over a work directory the first
\* run had filled, and ranked at least two pairs.
C18_Witness ==
    /\ reran
    /\ chain = 4
    /\ Wrote("aggregate")
    /\ Len(aggregate_file.inputs) = 2
    /\ Len(aggregate_file.global_ranking) >= 2

(***************************************************************************)
(* The pairs a stage file holds, and the dti stage computed in one piece.  *)
(***************************************************************************)
PairsIn(k) ==
    {<<stage_files[k].rows[i].input_id, stage_files[k].rows[i].partner_id>> :
        i \in 1..Len(stage_files[k].rows)}

\* C27: survivor chain.  When dti, dock and mmgbsa run in a row, every
\* (input_id, partner_id) pair of the docking output is in the dti output
\* and every pair of the mmgbsa output is in the docking output; every
\* ConsensusEntry aggregated from such a run has a dti score.
C27_SurvivorChain ==
    /\ chain >= 2 => PairsIn(2) \subseteq PairsIn(1)
    /\ chain >= 3 => PairsIn(3) \subseteq PairsIn(2)
    /\ chain = 4 =>
          \A n \in 1..Len(aggregate_file.inputs) :
             \A r \in 1..Len(aggregate_file.inputs[n].partners) :
                aggregate_file.inputs[n].partners[r].scores[1] # None

\* The four commands ran in a row; docking kept fewer pairs than dti, and
\* an entry without docking score was aggregated.
C27_Witness ==
    /\ chain = 4
    /\ PairsIn(2) # {}
    /\ PairsIn(2) # PairsIn(1)
    /\ PairsIn(3) = PairsIn(2)
    /\ \E n \in 1..Len(aggregate_file.inputs) :
          \E r \in 1..Len(aggregate_file.inputs[n].partners) :
             /\ aggregate_file.inputs[n].partners[r].scores[1] # None
             /\ aggregate_file.inputs[n].partners[r].scores[2] = None

\* Chunk sizes and device lists the dti stage could have been run with.
ChunkSizes == {1, 2, 3}
DeviceLists == { <<0>>, <<1>>, <<0, 1>>, <<1, 0>> }

\* The input records, one after the other, each with its top-k partners.
UnbatchedDti ==
    ScoreChunkFrom(load_input_records(input_rows).rows, 1,
                   Max2(1, LoadedSettings.dti_top_k))

\* The tasks run_dti hands to the scheduler.
DtiTasks ==
    chunked(load_input_records(input_rows).rows, Max2(1, LoadedSettings.chunk_size))

RECURSIVE Flatten(_)
Flatten(seqs) == IF seqs = <<>> THEN <<>> ELSE Head(seqs) \o Flatten(Tail(seqs))

\* C30: the dti output does not depend on batching or placement.  For
\* every chunk_size >= 1 and every non-empty device list run_dti writes the
\* same rows in the same order: for each input record, in input order, its
\* top-k ranked partners.  Every input record is in exactly one scheduler
\* task and is scored once.
C30_BatchingIndependent ==
    Wrote("dti")
    => /\ stage_files[1].rows = UnbatchedDti
       /\ \A c \in ChunkSizes : \A d \in DeviceLists :
             LET out == run_dti(input_rows, [LoadedSettings EXCEPT !.chunk_size = c],
                                d, NoFault)
             IN  out.status = "ok" /\ out.rows = UnbatchedDti
       /\ Flatten(DtiTasks) = load_input_records(input_rows).rows
       /\ \A i \in 1..Len(DtiTasks) : DtiTasks[i] # <<>>
       /\ Len(last_run.devices) = Len(DtiTasks)

\* Two input records went to two tasks on two devices.
C30_Witness ==
    /\ Wrote("dti")
    /\ Len(input_rows) = 2
    /\ Len(DtiTasks) = 2
    /\ last_run.devices = <<0, 1>>
    /\ Len(stage_files[1].rows) >= 3


(***************************************************************************)
(* scripts/run_pipeline.py: main runs the seven commands of STAGES one     *)
(* after the other, each in a child process that run_command waits for.    *)
(***************************************************************************)
STAGES == <<"validate", "prep", "dti", "dock", "mmgbsa", "aggregate", "report">>

\* Variant: subprocess.run(args, check=False): the exit status is ignored.
run_command_Unchecked(status) == "returned"

\* run_command: subprocess.run(args, check=True, env=env) returns when the
\* child exits with status 0 and raises CalledProcessError otherwise.  The
\* child exits with status 0 when main of the command returned 0 and with a
\* non-zero status when it left with an exception.
run_command(status) ==
    IF status = "ok" THEN "returned" ELSE "CalledProcessError"

\* What the commands that score nothing leave untouched.
NoStageEffect ==
    UNCHANGED <<stage_files, aggregate_file, chain, first_snapshot, reran,
                wrrf_calls, agg_result>>

\* run_validate: the input file must exist; the directories are created.
ValidateEffect ==
    /\ last_run' = Ran("validate",
                       IF sequences_exists THEN Ok(<<>>)
                       ELSE Fails("FileNotFoundError", <<>>), <<>>)
    /\ NoStageEffect
    /\ UNCHANGED report_file

\* run_prep: the work directories are created.
PrepEffect ==
    /\ last_run' = Ran("prep", Ok(<<>>), <<>>)
    /\ NoStageEffect
    /\ UNCHANGED report_file

\* run_report: report.json is the parsed aggregate file written again.
ReportEffect ==
    /\ last_run' = Ran("report",
                       IF aggregate_file.exists THEN Ok(<<>>)
                       ELSE Fails("FileNotFoundError", <<>>), <<>>)
    /\ report_file' = IF aggregate_file.exists
                        THEN [exists |-> TRUE, inputs |-> aggregate_file.inputs,
                              global_ranking |-> aggregate_file.global_ranking]
                        ELSE report_file
    /\ NoStageEffect

\* The process of run_pipeline.py: an existing work directory, any
\* configuration, the input file present or not.
RunnerInit ==
    /\ PipeInit
    /\ sequences_exists \in BOOLEAN
    /\ report_file = NoReport
    /\ runner_index = 1
    /\ runner_pc = "launch"
    /\ started = <<>>
    /\ finished = <<>>

\* for command in STAGES: run_command(stage_args, env=base_env), up to the
\* moment the child process exists.
Launch ==
    /\ runner_pc = "launch"
    /\ started' = Append(started, STAGES[runner_index])
    /\ runner_pc' = "wait"
    /\ UNCHANGED <<sequences_exists, report_file, runner_index, finished>>
    /\ UNCHANGED <<schedVars, fusionVars, aggVars, scoreVars, pipeVars>>

\* The child running `command` ends and subprocess.run returns or raises;
\* an exception leaves main, a return moves the loop to the next command.
Exits(command) ==
    /\ runner_pc = "wait"
    /\ STAGES[runner_index] = command
    /\ \E result \in {run_command(last_run'.status)} :
          /\ finished' = IF last_run'.status = "ok"
                           THEN Append(finished, command) ELSE finished
          /\ runner_index' = IF result = "returned"
                               THEN runner_index + 1 ELSE runner_index
          /\ runner_pc' = IF result # "returned" THEN "failed"
                          ELSE IF runner_index = Len(STAGES) THEN "done"
                          ELSE "launch"
    /\ UNCHANGED <<sequences_exists, started>>
    /\ PipeFrame
    /\ UNCHANGED notRunnerVars

ValidateExits == ValidateEffect /\ Exits("validate")
PrepExits == PrepEffect /\ Exits("prep")
DtiExits == DtiEffect /\ UNCHANGED report_file /\ Exits("dti")
DockExits == DockEffect /\ UNCHANGED report_file /\ Exits("dock")
MmgbsaExits == MmgbsaEffect /\ UNCHANGED report_file /\ Exits("mmgbsa")
AggregateExits == AggregateEffect /\ UNCHANGED report_file /\ Exits("aggregate")
ReportExits == ReportEffect /\ Exits("report")

RunnerNext ==
    \/ Launch
    \/ ValidateExits
    \/ PrepExits
    \/ DtiExits
    \/ DockExits
    \/ MmgbsaExits
    \/ AggregateExits
    \/ ReportExits

RunnerSpecInit == RunnerInit /\ SchedIdle /\ FusionIdle

SpecRunner == RunnerSpecInit /\ [][RunnerNext]_vars

\* seq is the first Len(seq) elements of of.
IsPrefix(seq, of) == Len(seq) <= Len(of) /\ seq = SubSeq(of, 1, Len(seq))

\* The file a command of STAGES writes is there.
OutputWritten(command) ==
    IF command \in DOMAIN StageFileOf THEN stage_files[StageFileOf[command]].exists
    ELSE IF command = "aggregate" THEN aggregate_file.exists
    ELSE IF command = "report" THEN report_file.exists
    ELSE TRUE

\* C19: stage barrier.  The runner launches the commands in the order
\* validate, prep, dti, dock, mmgbsa, aggregate, report; a command is
\* launched only when every command before it has exited successfully and
\* its output file is there, and once a command has failed nothing more is
\* launched.
C19_StageBarrier ==
    /\ IsPrefix(started, STAGES)
    /\ IsPrefix(finished, started)
    /\ Len(started) <= Len(finished) + 1
    /\ \A i \in 1..Len(finished) : OutputWritten(finished[i])
    /\ runner_pc = "failed" => Len(started) = Len(finished) + 1
    /\ runner_pc = "done" => finished = STAGES

\* aggregate was launched after dti, dock and mmgbsa wrote their files, and
\* failed on the fusion constant: report was never launched.
C19_Witness ==
    /\ runner_pc = "failed"
    /\ started = SubSeq(STAGES, 1, 6)
    /\ finished = SubSeq(STAGES, 1, 5)
    /\ last_run.command = "aggregate"
    /\ last_run.error = "ValueError"
    /\ ~report_file.exists

====
